---- MODULE Spec2Model ----
(***************************************************************************)
(* State machine of the enclave server (src/unnamed/part_000, lines 502 to *)
(* 1262): session directory, spawn and move claims, ledger event handlers, *)
(* DA backup queue and the per-block sweep.  Handlers are JavaScript       *)
(* callbacks: a synchronous handler is one action; an async handler is one *)
(* action per stretch of code between two awaits, its position is kept in  *)
(* the tasks table.                                                        *)
(***************************************************************************)
EXTENDS Integers, Sequences, FiniteSets, TLC

(* ------------------------------ bounds --------------------------------- *)
\* connection ids handed out by the transport, never reused
MaxConn == 2
\* largest block height delivered by the block subscription
MaxHeight == 3
\* async handler invocations that may be suspended at the same time
MaxTasks == 2
\* largest value the city id counter may reach
MaxCityId == 4
MaxPkHash == 3
MaxCities == 3
\* envelopes the backup queue may hold
MaxQueue == 14
\* largest value the recovery index may reach
MaxRecoveryIndex == 3

(* -------------------------- program constants -------------------------- *)
\* process.env.BOARD_SIZE
BOARD_SIZE == 3
\* process.env.START_RESOURCES
START_RESOURCES == 1
\* process.env.CLAIMED_MOVE_LIFE_SPAN
CLAIMED_MOVE_LIFE_SPAN == 1

(* ------------------------------ universe ------------------------------- *)
Addr == {"a1", "a2"}
Conn == 1..MaxConn
NoAddr == "none"
\* address recovered from a signature made over another message
Garbage == "garbage"
Loc == (0..(BOARD_SIZE - 1)) \X (0..(BOARD_SIZE - 1))

\* Map.set / Map.delete on a map held as a function with a partial domain
MapSet(m, k, v) == [x \in (DOMAIN m) \cup {k} |-> IF x = k THEN v ELSE m[x]]
MapDelete(m, k) == [x \in (DOMAIN m) \ {k} |-> m[x]]
EmptyMap == [x \in {} |-> 0]

(* ------------------------------- tiles --------------------------------- *)
\* Tile of the game library: location, owner, resources, city id, type
MkTile(l, o, res, cid, ty) ==
    [loc |-> l, owner |-> o, resources |-> res, cityId |-> cid, tileType |-> ty]

\* Board.seed: terrain only, nobody owns anything
BareTile(l) == MkTile(l, NoAddr, 0, 0, "bare")

\* Tile.spawn(player, l, START_RESOURCES, cityId): the capital of a new city
SpawnTile(a, l, cid) == MkTile(l, a, START_RESOURCES, cid, "capital")

\* Tile.hash(): collision resistant, so two tiles hash alike iff they are equal
Hash(t) == <<"h", t.loc, t.owner, t.resources, t.cityId, t.tileType>>

\* Utils.encryptTile / enqueueTile's envelope: owner address in clear, the tile
\* under the backup key
EncryptTile(t) == [address |-> t.owner, ciphertext |-> <<"aes", t>>]

VARIABLES
    live,               \* connections currently open
    nextConn,           \* next connection id the transport hands out
    inRecoveryMode,
    b,                  \* Board: tile per location
    cityId,
    idToAddress,
    addressToId,
    claimedMoves,
    claimedSpawns,
    currentBlockHeight, \* 0 until the first block event (undefined)
    playerLatestBlock,
    socketIdDA,         \* 0 when undefined
    queuedTilesDA,
    tasks,              \* suspended async handlers, by slot
    out,                \* messages emitted by the last step
    ev,                 \* the event the last step handled
    movesAccepted,      \* history: per address, proposals accepted at the current height
    spawnsOutstanding,  \* history: per address, spawn proposals since its last resolution
    expiredMoves,       \* history: keys of the move claims a sweep has deleted
    spawnSigsIssued,    \* history: per address, spawn signatures delivered since its last resolution
    moveSigsIssued,     \* history: keys of the moves whose signature was delivered
    recoveryModeIndex,
    sentDA,             \* history: per connection, envelopes sent to it and not acknowledged
    newTileLog,         \* the ledger's NewTile log: the hashes it has emitted
    citiesToPlayer,     \* NStates: city id -> pkHash of its owner, 0 when none
    playerToCities,     \* NStates: pkHash -> list of its city ids
    playerToCapital,    \* NStates: pkHash -> city id of its capital, 0 when none
    capitalToPlayer,    \* NStates: city id -> pkHash whose capital it is, 0 when none
    indexOfCity         \* NStates: city id -> index (from 0) in its owner's list

vars == <<live, nextConn, inRecoveryMode, b, cityId, idToAddress, addressToId,
          claimedMoves, claimedSpawns, currentBlockHeight, playerLatestBlock,
          socketIdDA, queuedTilesDA, tasks, out, ev, movesAccepted,
          spawnsOutstanding, expiredMoves,
          spawnSigsIssued, moveSigsIssued, recoveryModeIndex, sentDA,
          newTileLog, citiesToPlayer, playerToCities, playerToCapital,
          capitalToPlayer, indexOfCity>>

(* ------------------------- Board (game library) ------------------------ *)
\* Board.getNearbyLocations: the 3x3 region around l, clipped to the board
getNearbyLocations(l) ==
    {n \in Loc : /\ n[1] - l[1] \in {-1, 0, 1}
                 /\ n[2] - l[2] \in {-1, 0, 1}}

\* Board.setTile: the tile replaces the one at its location
setTile(board, t) == [board EXCEPT ![t.loc] = t]

\* Board.playerCities / Board.cityTiles: indices derived from the tiles
playerCities(board, a) == {board[l].cityId : l \in {x \in Loc : board[x].owner = a}}
cityTiles(board, c) == {l \in Loc : board[l].cityId = c}

\* Board.isSpawned: the player owns a city
isSpawned(board, a) == a # NoAddr /\ playerCities(board, a) # {}

\* Board.seed
SeededBoard == [l \in Loc |-> BareTile(l)]

\* order in which server.listen enqueues the seeded board: rows, then columns
LocIndex(l) == l[1] * BOARD_SIZE + l[2] + 1
LocAt(i) == CHOOSE l \in Loc : LocIndex(l) = i

(* ------------------------------- ledger -------------------------------- *)
\* poseidonPerm([0, challenge, blockhash, i])[0], on small numbers
Poseidon(challenge, blockHash, i) == (challenge + i) * 7 + blockHash * 3 + i

\* the secret each player committed to on the ledger; getSpawnChallengeHash
\* returns its hash
CommittedSecret(a) == IF a = "a1" THEN 1 ELSE 2

\* nStates.getBlockHash(height)
BlockHashAt(height) == height + 6

\* the location taken from the city-id counter instead of the hashes
SpawnLocation_ByCounter(challenge, blockHash) ==
    << cityId % BOARD_SIZE, (cityId + challenge) % BOARD_SIZE >>

\* getSpawnSignature lines 776-780: hash-to-grid mapping
SpawnLocation(challenge, blockHash) ==
    << Poseidon(challenge, blockHash, 0) % BOARD_SIZE,
       Poseidon(challenge, blockHash, 1) % BOARD_SIZE >>

(* ----------------------------- signatures ------------------------------ *)
\* a client's signature: who signed which connection id; Malformed does not parse
Malformed == [signer |-> NoAddr, msg |-> 0]
\* signatures tried on connection s for an address: by any player over this
\* id, by the address itself over another message, and one that does not parse
LoginSigs(s, address) ==
    {[signer |-> a, msg |-> s] : a \in Addr}
        \cup {[signer |-> address, msg |-> 0], Malformed}

\* ethers.utils.verifyMessage(socket.id, sig): the signer if the signature was
\* made over this id, some unrelated address otherwise
verifyMessage(id, sig) == IF sig.msg = id THEN sig.signer ELSE Garbage

\* signer.signMessage(digest) of the enclave
EnclaveSig(height, h1, h2) == <<"sig", height, h1, h2>>

(* --------------------------- client requests --------------------------- *)
\* tiles a client may put in a move request: an army leaving (0,0) for (0,1)
MoveFrom(a) == MkTile(<<0, 0>>, a, 1, 1, "bare")
MoveTo(a) == MkTile(<<0, 1>>, a, 1, 1, "bare")
FromTiles == {MoveFrom(a) : a \in Addr}
ToTiles == {MoveTo(a) : a \in Addr}
\* claimedMoves key: hUFrom.concat(hUTo)
MoveKey(hUFrom, hUTo) == <<hUFrom, hUTo>>
\* a secret that BigInt() cannot parse
BadSecret == 0 - 1

(* ------------------------------ helpers -------------------------------- *)
FreeSlots == (1..MaxTasks) \ DOMAIN tasks

Emit(to, msg, payload) == [to |-> to, msg |-> msg, payload |-> payload]
\* socket.emit / io.to(id).emit reach only an open connection
Sent(msgs) == {m \in msgs : m.to \in live}

\* op: the callback; conn: its connection (0 for the ledger); who: the address
\* the connection resolved to when the callback started; arg: its argument
Event(op, conn, who, arg) == [op |-> op, conn |-> conn, who |-> who, arg |-> arg]
Who(s) == IF s \in DOMAIN idToAddress THEN idToAddress[s] ELSE NoAddr

\* disconnect(socket), lines 886-896
DisconnectIdToAddress(s) ==
    IF s \in DOMAIN idToAddress THEN MapDelete(idToAddress, s) ELSE idToAddress
DisconnectAddressToId(s) ==
    IF s \in DOMAIN idToAddress THEN MapDelete(addressToId, idToAddress[s])
    ELSE addressToId
DisconnectDA(s) == IF socketIdDA = s THEN 0 ELSE socketIdDA

\* socket.disconnect(): closes an open connection, which runs the
\* "disconnecting" callback before returning; nothing on a closed one
Drop(s) ==
    IF s \in live
    THEN /\ live' = live \ {s}
         /\ idToAddress' = DisconnectIdToAddress(s)
         /\ addressToId' = DisconnectAddressToId(s)
         /\ socketIdDA' = DisconnectDA(s)
    ELSE UNCHANGED <<live, idToAddress, addressToId, socketIdDA>>

\* enqueueTile, lines 1123-1134
enqueueTile(q, t) == Append(q, EncryptTile(t))

\* dequeueTileIfDAConnected, lines 1139-1144: the queue afterwards and the
\* messages emitted, for a given attachment slot
DequeueCond(da, q) == da # 0 /\ Len(q) > 0
dequeueQueue(da, q) == IF DequeueCond(da, q) THEN Tail(q) ELSE q
dequeueEmits(da, q) ==
    IF DequeueCond(da, q) THEN {Emit(da, "saveToDatabase", Head(q))} ELSE {}
\* the envelopes in flight, per connection, after the call
dequeueSent(da, q, sent) ==
    IF DequeueCond(da, q) THEN [sent EXCEPT ![da] = @ + 1] ELSE sent

(* --------------------- the ledger contract (NStates.sol) --------------- *)
\* The players' pkHash values are 1..MaxPkHash and the city ids on the ledger
\* 1..MaxCities; 0 is the default of an unset mapping entry.
\* the constructor, lines 66-74: every mapping is unset
Deployed ==
    /\ citiesToPlayer = [c \in 1..MaxCities |-> 0]
    /\ playerToCities = [p \in 0..MaxPkHash |-> << >>]
    /\ playerToCapital = [p \in 0..MaxPkHash |-> 0]
    /\ capitalToPlayer = [c \in 1..MaxCities |-> 0]
    /\ indexOfCity = [c \in 1..MaxCities |-> 0]

\* checkOntoSelfOrUnowned, lines 231-241
checkOntoSelfOrUnowned(fromPkHash, toCityId, ontoSelfOrUnowned) ==
    LET toCityOwner == citiesToPlayer[toCityId]
    IN IF toCityOwner = fromPkHash \/ toCityOwner = 0
       THEN ontoSelfOrUnowned = 1
       ELSE ontoSelfOrUnowned = 0

\* transferCityOwnership, lines 247-271, on the storage st; the checked
\* subtraction of line 257 and the array accesses of lines 258-259 revert
\* the transaction when the enemy's list is empty or the index is outside it
transferCityOwnership(st, newOwner, toCityId, ontoSelfOrUnowned) ==
    LET enemy == st.citiesToPlayer[toCityId]
        list == st.playerToCities[enemy]
        lastIndex == Len(list) - 1
        i == st.indexOfCity[toCityId]
        popped ==
            IF ontoSelfOrUnowned # 0 THEN st
            ELSE IF Len(list) = 0 \/ i > lastIndex
                 THEN [st EXCEPT !.reverted = TRUE]
                 ELSE LET lastElement == list[lastIndex + 1]
                      IN [st EXCEPT
                             !.playerToCities[enemy] =
                                 SubSeq([list EXCEPT ![i + 1] = lastElement],
                                        1, lastIndex),
                             !.indexOfCity[lastElement] = i]
        cityList == popped.playerToCities[newOwner]
    IN IF popped.reverted THEN popped
       ELSE [popped EXCEPT !.indexOfCity[toCityId] = Len(cityList),
                           !.playerToCities[newOwner] = Append(cityList, toCityId),
                           !.citiesToPlayer[toCityId] = newOwner]

RECURSIVE CaptureLoop(_, _, _, _)
\* the while loop of move, lines 192-199: the enemy's last city is handed
\* over as long as its list is not empty; gas bounds the iterations
CaptureLoop(st, newOwner, enemy, gas) ==
    IF st.reverted \/ Len(st.playerToCities[enemy]) = 0 THEN st
    ELSE IF gas = 0 THEN [st EXCEPT !.outOfGas = TRUE]
    ELSE LET list == st.playerToCities[enemy]
         IN CaptureLoop(transferCityOwnership(st, newOwner, list[Len(list)], 0),
                        newOwner, enemy, gas - 1)

\* spawn, lines 96-111 (called by the contract owner); the tile commitment,
\* the area and the resources of the city are not modelled
NStatesSpawn(pkHash, city) ==
    /\ citiesToPlayer[city] = 0
    /\ playerToCapital' = [playerToCapital EXCEPT ![pkHash] = city]
    /\ capitalToPlayer' = [capitalToPlayer EXCEPT ![city] = pkHash]
    /\ citiesToPlayer' = [citiesToPlayer EXCEPT ![city] = pkHash]
    /\ playerToCities' = [playerToCities EXCEPT ![pkHash] = <<city>>]
    /\ indexOfCity' = [indexOfCity EXCEPT ![city] = 0]
    /\ ev' = Event("spawn", 0, NoAddr, 0)
    /\ out' = {}
    /\ UNCHANGED <<live, nextConn, inRecoveryMode, b, cityId, idToAddress,
                   addressToId, claimedMoves, claimedSpawns, currentBlockHeight,
                   playerLatestBlock, socketIdDA, queuedTilesDA, tasks,
                   movesAccepted, spawnsOutstanding, expiredMoves,
                   spawnSigsIssued, moveSigsIssued, recoveryModeIndex, sentDA,
                   newTileLog>>

\* verifyProof, lines 149-157.  The circuit the verifier stands for
\* (move.func.circom) is not in the repository; the flags it attests are taken
\* to be those of the tiles moved onto: takingCity for the centre of a city
\* that is nobody's capital, takingCapital for the capital of the city's
\* owner, and never both.
verifyProof(moveInputs) ==
    LET toCityOwner == citiesToPlayer[moveInputs.toCityId]
        capitalOf == capitalToPlayer[moveInputs.toCityId]
    IN /\ moveInputs.takingCity = 1 => capitalOf = 0
       /\ moveInputs.takingCapital = 1 =>
              (capitalOf # 0 /\ capitalOf = toCityOwner)
       /\ moveInputs.takingCity + moveInputs.takingCapital <= 1

\* move, lines 120-222: the requires on the cities (lines 133-144) and the
\* changes of ownership (lines 165-203); tile commitments, proof, signature,
\* areas and resources are not modelled.  A transaction that reverts is no
\* step; one that runs out of gas leaves the storage as it was.
NStatesMove(moveInputs) ==
    LET st == [reverted |-> FALSE, outOfGas |-> FALSE,
               citiesToPlayer |-> citiesToPlayer,
               playerToCities |-> playerToCities,
               playerToCapital |-> playerToCapital,
               capitalToPlayer |-> capitalToPlayer,
               indexOfCity |-> indexOfCity]
        enemy == capitalToPlayer[moveInputs.toCityId]
        captures == moveInputs.capturedTile = 1 /\ moveInputs.ontoSelfOrUnowned = 0
        looped == CaptureLoop(st, moveInputs.fromPkHash, enemy, MaxCities + 1)
        result ==
            IF captures /\ moveInputs.takingCity = 1
            THEN transferCityOwnership(st, moveInputs.fromPkHash,
                                       moveInputs.toCityId,
                                       moveInputs.ontoSelfOrUnowned)
            ELSE IF captures /\ moveInputs.takingCapital = 1
            THEN IF looped.reverted \/ looped.outOfGas THEN looped
                 ELSE [looped EXCEPT !.playerToCapital[enemy] = 0,
                                     !.capitalToPlayer[moveInputs.toCityId] = 0]
            ELSE st
        final == IF result.outOfGas THEN st ELSE result
    IN /\ moveInputs.fromPkHash = citiesToPlayer[moveInputs.fromCityId]
       /\ checkOntoSelfOrUnowned(moveInputs.fromPkHash, moveInputs.toCityId,
                                 moveInputs.ontoSelfOrUnowned)
       /\ verifyProof(moveInputs)
       /\ ~result.reverted
       /\ citiesToPlayer' = final.citiesToPlayer
       /\ playerToCities' = final.playerToCities
       /\ playerToCapital' = final.playerToCapital
       /\ capitalToPlayer' = final.capitalToPlayer
       /\ indexOfCity' = final.indexOfCity
       /\ ev' = Event("move", 0, NoAddr,
                      IF captures /\ moveInputs.takingCity # 1
                                  /\ moveInputs.takingCapital = 1
                      THEN [takingCapital |-> 1,
                            fromPkHash |-> moveInputs.fromPkHash,
                            enemy |-> enemy, outOfGas |-> result.outOfGas]
                      ELSE [takingCapital |-> 0, fromPkHash |-> 0,
                            enemy |-> 0, outOfGas |-> FALSE])
       /\ out' = {}
       /\ UNCHANGED <<live, nextConn, inRecoveryMode, b, cityId, idToAddress,
                      addressToId, claimedMoves, claimedSpawns,
                      currentBlockHeight, playerLatestBlock, socketIdDA,
                      queuedTilesDA, tasks, movesAccepted, spawnsOutstanding,
                      expiredMoves, spawnSigsIssued, moveSigsIssued,
                      recoveryModeIndex, sentDA, newTileLog>>

(* ------------------------------- Init ---------------------------------- *)
\* server.listen in normal mode (lines 1240-1257): seeded board, every tile
\* of it enqueued for backup, nobody connected
InitialQueue == [i \in 1..(BOARD_SIZE * BOARD_SIZE) |-> EncryptTile(SeededBoard[LocAt(i)])]

Init ==
    /\ live = {}
    /\ nextConn = 1
    /\ inRecoveryMode = FALSE
    /\ b = SeededBoard
    /\ cityId = 1
    /\ idToAddress = EmptyMap
    /\ addressToId = EmptyMap
    /\ claimedMoves = EmptyMap
    /\ claimedSpawns = EmptyMap
    /\ currentBlockHeight = 0
    /\ playerLatestBlock = EmptyMap
    /\ socketIdDA = 0
    /\ queuedTilesDA = InitialQueue
    /\ tasks = EmptyMap
    /\ out = {}
    /\ ev = Event("listen", 0, NoAddr, 0)
    /\ movesAccepted = [a \in Addr |-> 0]
    /\ spawnsOutstanding = [a \in Addr |-> 0]
    /\ expiredMoves = {}
    /\ spawnSigsIssued = [a \in Addr |-> 0]
    /\ moveSigsIssued = {}
    /\ recoveryModeIndex = 0
    /\ sentDA = [s \in Conn |-> 0]
    /\ newTileLog = {}
    /\ Deployed

\* server.listen in recovery mode (lines 1226-1239): seeded board, nothing
\* enqueued, nobody connected
InitRecovery ==
    /\ live = {}
    /\ nextConn = 1
    /\ inRecoveryMode = TRUE
    /\ b = SeededBoard
    /\ cityId = 1
    /\ idToAddress = EmptyMap
    /\ addressToId = EmptyMap
    /\ claimedMoves = EmptyMap
    /\ claimedSpawns = EmptyMap
    /\ currentBlockHeight = 0
    /\ playerLatestBlock = EmptyMap
    /\ socketIdDA = 0
    /\ queuedTilesDA = << >>
    /\ tasks = EmptyMap
    /\ out = {}
    /\ ev = Event("listen", 0, NoAddr, 0)
    /\ movesAccepted = [a \in Addr |-> 0]
    /\ spawnsOutstanding = [a \in Addr |-> 0]
    /\ expiredMoves = {}
    /\ spawnSigsIssued = [a \in Addr |-> 0]
    /\ moveSigsIssued = {}
    /\ recoveryModeIndex = 0
    /\ sentDA = [s \in Conn |-> 0]
    /\ newTileLog = {}
    /\ Deployed

(* ----------------------------- connections ----------------------------- *)
\* io.on("connection"), lines 1162-1195: a new socket with a fresh id
Connect ==
    /\ nextConn <= MaxConn
    /\ live' = live \cup {nextConn}
    /\ nextConn' = nextConn + 1
    /\ out' = {}
    /\ ev' = Event("connection", nextConn, NoAddr, 0)
    /\ UNCHANGED <<inRecoveryMode, b, cityId, idToAddress, addressToId,
                   claimedMoves, claimedSpawns, currentBlockHeight,
                   playerLatestBlock, socketIdDA, queuedTilesDA, tasks,
                   movesAccepted, spawnsOutstanding, expiredMoves,
                   spawnSigsIssued, moveSigsIssued,
                   sentDA, recoveryModeIndex,
                   newTileLog, citiesToPlayer, playerToCities, playerToCapital,
          capitalToPlayer, indexOfCity>>

\* the client closes the connection: the "disconnecting" callback
Disconnect(s) ==
    /\ s \in live
    /\ Drop(s)
    /\ out' = {}
    /\ ev' = Event("disconnecting", s, Who(s), 0)
    /\ UNCHANGED <<nextConn, inRecoveryMode, b, cityId, claimedMoves,
                   claimedSpawns, currentBlockHeight, playerLatestBlock,
                   queuedTilesDA, tasks, movesAccepted, spawnsOutstanding, expiredMoves,
                   spawnSigsIssued, moveSigsIssued,
                   sentDA, recoveryModeIndex,
                   newTileLog, citiesToPlayer, playerToCities, playerToCapital,
          capitalToPlayer, indexOfCity>>

(* -------------------------------- login -------------------------------- *)
\* login that forgets to look the address up
LoginAddressFree_Skipped(address) == TRUE

\* line 665: the address must not be logged on already
LoginAddressFree(address) == address \notin DOMAIN addressToId

\* lines 695-705: the neighbourhoods of every tile of every city of the player
LoginVisibleTiles(address) ==
    UNION {getNearbyLocations(tl) :
              tl \in UNION {cityTiles(b, c) : c \in playerCities(b, address)}}

\* login that never looks at the mode
LoginInRecovery_Ignored == FALSE

\* line 660
LoginInRecovery == inRecoveryMode

\* the signer is compared with the address but the signed message is not
\* compared with the connection id
LoginSigOk_AnyMessage(s, address, sigStr) ==
    /\ sigStr # Malformed
    /\ address = sigStr.signer

\* lines 671-684: the signature parses and was made by the address over the
\* connection id
LoginSigOk(s, address, sigStr) ==
    /\ sigStr # Malformed
    /\ address = verifyMessage(s, sigStr)

\* login, lines 659-710 (the event also records the signature presented)
Login(s, address, sigStr) ==
    /\ s \in live
    /\ ev' = Event("login", s, Who(s), address) @@ [sig |-> sigStr]
    /\ UNCHANGED <<nextConn, inRecoveryMode, b, cityId, claimedMoves,
                   claimedSpawns, currentBlockHeight, queuedTilesDA, tasks,
                   movesAccepted, spawnsOutstanding, expiredMoves,
                   spawnSigsIssued, moveSigsIssued,
                   sentDA, recoveryModeIndex,
                   newTileLog, citiesToPlayer, playerToCities, playerToCapital,
          capitalToPlayer, indexOfCity>>
    /\ IF \/ LoginInRecovery
          \/ ~LoginAddressFree(address)
          \/ ~LoginSigOk(s, address, sigStr)
       THEN /\ Drop(s)
            /\ out' = {}
            /\ UNCHANGED playerLatestBlock
       ELSE /\ idToAddress' = MapSet(idToAddress, s, address)
            /\ addressToId' = MapSet(addressToId, address, s)
            /\ UNCHANGED <<live, socketIdDA>>
            /\ IF isSpawned(b, address)
               THEN /\ playerLatestBlock' = MapSet(playerLatestBlock, address, 0)
                    /\ out' = {Emit(s, "loginResponse", LoginVisibleTiles(address))}
               ELSE /\ UNCHANGED playerLatestBlock
                    /\ out' = {Emit(s, "trySpawn", 0)}

(* --------------------------- getSpawnSignature ------------------------- *)
\* getSpawnSignature that forgets to look for an earlier claim
NoSpawnClaim_Skipped(sender, address) == TRUE

\* lines 730-740: neither the sender nor the named address has a spawn claim
NoSpawnClaim(sender, address) ==
    /\ sender \notin DOMAIN claimedSpawns
    /\ address \notin DOMAIN claimedSpawns

\* getSpawnSignature up to its first await, lines 717-754
GetSpawnSignature(s, address, playerSecret) ==
    /\ s \in live
    /\ ev' = Event("getSpawnSignature", s, Who(s), address)
    /\ out' = {}
    /\ UNCHANGED <<nextConn, inRecoveryMode, b, cityId, claimedMoves,
                   claimedSpawns, currentBlockHeight, playerLatestBlock,
                   queuedTilesDA, movesAccepted, spawnsOutstanding, expiredMoves,
                   spawnSigsIssued, moveSigsIssued,
                   sentDA, recoveryModeIndex,
                   newTileLog, citiesToPlayer, playerToCities, playerToCapital,
          capitalToPlayer, indexOfCity>>
    /\ IF \/ inRecoveryMode
          \/ s \notin DOMAIN idToAddress
          \/ ~NoSpawnClaim(idToAddress[s], address)
          \/ playerSecret = BadSecret
       THEN /\ Drop(s)
            /\ UNCHANGED tasks
       ELSE /\ FreeSlots # {}
            /\ LET slot == CHOOSE x \in FreeSlots : \A y \in FreeSlots : x <= y
               IN tasks' = MapSet(tasks, slot,
                      [kind |-> "spawn", pc |-> "ledger", conn |-> s,
                       sender |-> idToAddress[s], address |-> address,
                       secret |-> playerSecret, block |-> 0,
                       prevTile |-> BareTile(<<0, 0>>),
                       spawnTile |-> BareTile(<<0, 0>>)])
            /\ UNCHANGED <<live, idToAddress, addressToId, socketIdDA>>

\* lines 752-770: the ledger's spawn commitment and challenge hash arrive
\* (latestBlockCommited is 0 when the address has no open commitment)
SpawnCommitmentRead(slot, latestBlockCommited) ==
    /\ slot \in DOMAIN tasks
    /\ tasks[slot].kind = "spawn" /\ tasks[slot].pc = "ledger"
    /\ LET t == tasks[slot] IN
       /\ ev' = Event("getSpawnSignature:commitment", t.conn, t.sender, t.address)
       /\ out' = {}
       /\ UNCHANGED <<nextConn, inRecoveryMode, b, cityId, claimedMoves,
                      claimedSpawns, currentBlockHeight, playerLatestBlock,
                      queuedTilesDA, movesAccepted, spawnsOutstanding, expiredMoves,
                      spawnSigsIssued, moveSigsIssued,
                      sentDA, recoveryModeIndex,
                   newTileLog, citiesToPlayer, playerToCities, playerToCapital,
          capitalToPlayer, indexOfCity>>
       /\ IF latestBlockCommited = 0 \/ CommittedSecret(t.address) # t.secret
          THEN /\ Drop(t.conn)
               /\ tasks' = MapDelete(tasks, slot)
          ELSE /\ idToAddress' = MapSet(idToAddress, t.conn, t.sender)
               /\ addressToId' = MapSet(addressToId, t.sender, t.conn)
               /\ tasks' = [tasks EXCEPT ![slot].pc = "blockhash",
                                         ![slot].block = latestBlockCommited]
               /\ UNCHANGED <<live, socketIdDA>>

\* lines 773-800: the block hash arrives; the location is derived, the claim
\* is recorded and the counter advanced, then the handler waits for the signer
SpawnBlockHashRead(slot) ==
    /\ slot \in DOMAIN tasks
    /\ tasks[slot].kind = "spawn" /\ tasks[slot].pc = "blockhash"
    /\ cityId < MaxCityId
    /\ LET t == tasks[slot]
           l == SpawnLocation(t.secret, BlockHashAt(t.block))
           prevTile == b[l]
           spawnTile == SpawnTile(t.address, l, cityId)
       IN
       /\ ev' = Event("getSpawnSignature:blockhash", t.conn, t.sender, t.address)
       /\ out' = {}
       /\ cityId' = cityId + 1
       /\ claimedSpawns' = MapSet(claimedSpawns, t.address,
                                  [prevTile |-> prevTile, spawnTile |-> spawnTile])
       /\ spawnsOutstanding' =
              [spawnsOutstanding EXCEPT ![t.address] = @ + 1]
       /\ tasks' = [tasks EXCEPT ![slot].pc = "sign",
                                 ![slot].prevTile = prevTile,
                                 ![slot].spawnTile = spawnTile]
       /\ UNCHANGED <<live, nextConn, inRecoveryMode, b, idToAddress,
                      addressToId, claimedMoves, currentBlockHeight,
                      playerLatestBlock, socketIdDA, queuedTilesDA,
                      movesAccepted, expiredMoves,
                      spawnSigsIssued, moveSigsIssued,
                      sentDA, recoveryModeIndex,
                   newTileLog, citiesToPlayer, playerToCities, playerToCapital,
          capitalToPlayer, indexOfCity>>

\* lines 800-807: the signature is ready and is sent with both tiles
SpawnSigned(slot) ==
    /\ slot \in DOMAIN tasks
    /\ tasks[slot].kind = "spawn" /\ tasks[slot].pc = "sign"
    /\ LET t == tasks[slot] IN
       /\ ev' = Event("getSpawnSignature:signed", t.conn, t.sender, t.address)
       /\ out' = Sent({Emit(t.conn, "spawnSignatureResponse",
                            [sig |-> EnclaveSig(t.block, Hash(t.prevTile),
                                                Hash(t.spawnTile)),
                             prevTile |-> t.prevTile,
                             spawnTile |-> t.spawnTile])})
       /\ spawnSigsIssued' = IF t.conn \in live
                             THEN [spawnSigsIssued EXCEPT ![t.address] = @ + 1]
                             ELSE spawnSigsIssued
       /\ tasks' = MapDelete(tasks, slot)
       /\ UNCHANGED <<live, nextConn, inRecoveryMode, b, cityId, idToAddress,
                      addressToId, claimedMoves, claimedSpawns,
                      currentBlockHeight, playerLatestBlock, socketIdDA,
                      queuedTilesDA, movesAccepted, spawnsOutstanding, expiredMoves,
                      moveSigsIssued,
                      sentDA, recoveryModeIndex,
                   newTileLog, citiesToPlayer, playerToCities, playerToCapital,
          capitalToPlayer, indexOfCity>>

(* --------------------------- getMoveSignature -------------------------- *)
\* the rate limit compared with <= instead of <
MoveAllowed_AtHeight(sender, uFrom) ==
    /\ sender \in DOMAIN playerLatestBlock
    /\ playerLatestBlock[sender] <= currentBlockHeight
    /\ uFrom.owner = sender

\* lines 823-828: one proposal per address per block, for the sender's own tile
MoveAllowed(sender, uFrom) ==
    /\ sender \in DOMAIN playerLatestBlock
    /\ playerLatestBlock[sender] < currentBlockHeight
    /\ uFrom.owner = sender

\* the claim stamped with the owner's last proposal height (latestBlock)
\* instead of the current height
NewClaimedMove_Stale(uFrom, uTo, height) ==
    [uFrom |-> uFrom, uTo |-> uTo,
     blockSubmitted |-> IF uFrom.owner \in DOMAIN playerLatestBlock
                        THEN playerLatestBlock[uFrom.owner] ELSE 0,
     uFromEnc |-> EncryptTile(uFrom), uToEnc |-> EncryptTile(uTo)]

\* lines 838-844
NewClaimedMove(uFrom, uTo, height) ==
    [uFrom |-> uFrom, uTo |-> uTo, blockSubmitted |-> height,
     uFromEnc |-> EncryptTile(uFrom), uToEnc |-> EncryptTile(uTo)]

\* the proposed tiles are written to the Board at once
ProposalBoard_Committed(board, uFrom, uTo) ==
    setTile(setTile(board, uFrom), uTo)

\* lines 829-844: the proposal goes to the queue and to the claim; the Board
\* is not written
ProposalBoard(board, uFrom, uTo) == board

\* getMoveSignature up to its await on the signer, lines 814-850
GetMoveSignature(s, uFrom, uTo) ==
    /\ s \in live
    /\ ev' = Event("getMoveSignature", s, Who(s), MoveKey(Hash(uFrom), Hash(uTo)))
    /\ out' = {}
    /\ b' = ProposalBoard(b, uFrom, uTo)
    /\ UNCHANGED <<nextConn, inRecoveryMode, cityId, claimedSpawns,
                   currentBlockHeight, playerLatestBlock, spawnsOutstanding,
                   expiredMoves, spawnSigsIssued, moveSigsIssued,
                   sentDA, recoveryModeIndex,
                   newTileLog, citiesToPlayer, playerToCities, playerToCapital,
          capitalToPlayer, indexOfCity>>
    /\ IF \/ inRecoveryMode
          \/ s \notin DOMAIN idToAddress
          \/ ~MoveAllowed(idToAddress[s], uFrom)
       THEN /\ Drop(s)
            /\ UNCHANGED <<claimedMoves, queuedTilesDA, tasks, movesAccepted>>
       ELSE /\ FreeSlots # {}
            /\ Len(queuedTilesDA) + 2 <= MaxQueue
            /\ queuedTilesDA' = enqueueTile(enqueueTile(queuedTilesDA, uFrom), uTo)
            /\ claimedMoves' = MapSet(claimedMoves,
                                      MoveKey(Hash(uFrom), Hash(uTo)),
                                      NewClaimedMove(uFrom, uTo, currentBlockHeight))
            /\ movesAccepted' = [movesAccepted EXCEPT ![idToAddress[s]] = @ + 1]
            /\ LET slot == CHOOSE x \in FreeSlots : \A y \in FreeSlots : x <= y
               IN tasks' = MapSet(tasks, slot,
                      [kind |-> "move", pc |-> "sign", conn |-> s,
                       sender |-> idToAddress[s],
                       sig |-> EnclaveSig(currentBlockHeight, Hash(uFrom), Hash(uTo)),
                       key |-> MoveKey(Hash(uFrom), Hash(uTo))])
            /\ UNCHANGED <<live, idToAddress, addressToId, socketIdDA>>

\* lines 850-856: the signature is ready; it is sent with the height, the
\* sender's last proposal height is recorded and the queue is served
MoveSigned(slot) ==
    /\ slot \in DOMAIN tasks
    /\ tasks[slot].kind = "move" /\ tasks[slot].pc = "sign"
    /\ LET t == tasks[slot] IN
       /\ ev' = Event("getMoveSignature:signed", t.conn, t.sender, t.key)
       /\ out' = Sent({Emit(t.conn, "moveSignatureResponse",
                            [sig |-> t.sig, height |-> currentBlockHeight])})
                 \cup dequeueEmits(socketIdDA, queuedTilesDA)
       /\ playerLatestBlock' = MapSet(playerLatestBlock, t.sender, currentBlockHeight)
       /\ queuedTilesDA' = dequeueQueue(socketIdDA, queuedTilesDA)
       /\ sentDA' = dequeueSent(socketIdDA, queuedTilesDA, sentDA)
       /\ moveSigsIssued' = IF t.conn \in live
                            THEN moveSigsIssued \cup {t.key} ELSE moveSigsIssued
       /\ tasks' = MapDelete(tasks, slot)
       /\ UNCHANGED <<live, nextConn, inRecoveryMode, b, cityId, idToAddress,
                      addressToId, claimedMoves, claimedSpawns,
                      currentBlockHeight, socketIdDA, movesAccepted,
                      spawnsOutstanding, expiredMoves,
                      spawnSigsIssued, recoveryModeIndex,
                   newTileLog, citiesToPlayer, playerToCities, playerToCapital,
          capitalToPlayer, indexOfCity>>

(* -------------------------------- decrypt ------------------------------ *)
\* Board.noFog: the player owns a tile of the neighbourhood of l
noFog(board, l, a) == \E n \in getNearbyLocations(l) : board[n].owner = a

\* Tile.mystery: a sentinel that carries the location only
MysteryTile(l) == MkTile(l, NoAddr, 0, 0, "mystery")

\* the true tile whatever the fog
decryptResponse_Unmasked(board, l, a) == board[l]

\* lines 873-878: the true tile where the player sees, the sentinel elsewhere
decryptResponse(board, l, a) ==
    IF noFog(board, l, a) THEN board[l] ELSE MysteryTile(l)

\* decrypt, lines 867-879
Decrypt(s, l) ==
    /\ s \in live
    /\ ev' = Event("decrypt", s, Who(s), l)
    /\ UNCHANGED <<nextConn, inRecoveryMode, b, cityId, claimedMoves,
                   claimedSpawns, currentBlockHeight, playerLatestBlock,
                   queuedTilesDA, tasks, movesAccepted, spawnsOutstanding, expiredMoves,
                   spawnSigsIssued, moveSigsIssued,
                   sentDA, recoveryModeIndex,
                   newTileLog, citiesToPlayer, playerToCities, playerToCapital,
          capitalToPlayer, indexOfCity>>
    /\ IF inRecoveryMode \/ s \notin DOMAIN idToAddress
       THEN /\ Drop(s)
            /\ out' = {}
       ELSE /\ out' = {Emit(s, "decryptResponse",
                            decryptResponse(b, l, idToAddress[s]))}
            /\ UNCHANGED <<live, idToAddress, addressToId, socketIdDA>>

(* ----------------------------- ledger events --------------------------- *)
\* the outcome the ledger reports is not looked at
SpawnCommits_IgnoresSuccess(player, success) ==
    /\ player \in DOMAIN claimedSpawns
    /\ player \in DOMAIN addressToId

\* line 912: the spawn is committed when it succeeded, was claimed and the
\* player is logged on
SpawnCommits(player, success) ==
    /\ success
    /\ player \in DOMAIN claimedSpawns
    /\ player \in DOMAIN addressToId

\* onSpawnAttempt, lines 903-931
OnSpawnAttempt(player, success) ==
    /\ ev' = Event("NewSpawnAttempt", 0, player, success)
    /\ spawnSigsIssued' = [spawnSigsIssued EXCEPT ![player] = 0]
    /\ UNCHANGED <<live, nextConn, inRecoveryMode, cityId, idToAddress,
                   addressToId, claimedMoves, currentBlockHeight, socketIdDA,
                   tasks, movesAccepted, expiredMoves,
                   moveSigsIssued, recoveryModeIndex>>
    /\ IF inRecoveryMode
       THEN /\ out' = {}
            /\ UNCHANGED <<b, claimedSpawns, playerLatestBlock, queuedTilesDA,
                           spawnsOutstanding, sentDA>>
       ELSE /\ claimedSpawns' = MapDelete(claimedSpawns, player)
            /\ spawnsOutstanding' = [spawnsOutstanding EXCEPT ![player] = 0]
            /\ IF SpawnCommits(player, success)
               THEN LET spawn == claimedSpawns[player]
                        queued == enqueueTile(queuedTilesDA, spawn.spawnTile)
                    IN
                    /\ Len(queuedTilesDA) + 1 <= MaxQueue
                    /\ b' = setTile(b, spawn.spawnTile)
                    /\ playerLatestBlock' = MapSet(playerLatestBlock, player, 0)
                    /\ queuedTilesDA' = dequeueQueue(socketIdDA, queued)
                    /\ sentDA' = dequeueSent(socketIdDA, queued, sentDA)
                    /\ out' = dequeueEmits(socketIdDA, queued) \cup
                              Sent({Emit(addressToId[player], "loginResponse",
                                         getNearbyLocations(spawn.spawnTile.loc))})
               ELSE /\ UNCHANGED <<b, playerLatestBlock, queuedTilesDA, sentDA>>
                    /\ out' = IF ~success /\ player \in DOMAIN addressToId
                              THEN Sent({Emit(addressToId[player], "trySpawn", 0)})
                              ELSE {}

(* ----------------------------- onMoveFinalize -------------------------- *)
\* iteration orders: numbers ascending, locations row by row
SortedSeq(S) ==
    [i \in 1..Cardinality(S) |->
        CHOOSE x \in S : Cardinality({y \in S : y < x}) = i - 1]
LocSeq(S) ==
    LET idx == SortedSeq({LocIndex(l) : l \in S})
    IN [i \in 1..Len(idx) |-> LocAt(idx[i])]

RECURSIVE CityTilesSeq(_, _)
\* lines 956-963: the tiles of each city of a sequence of cities, in turn
CityTilesSeq(board, cities) ==
    IF cities = << >> THEN << >>
    ELSE LocSeq(cityTiles(board, Head(cities))) \o CityTilesSeq(board, Tail(cities))

\* Tile.isCapital / Tile.isCityCenter
isCapital(t) == t.tileType = "capital"
isCityCenter(t) == t.tileType \in {"capital", "city"}

\* a captured capital refreshes its own city only
UpdatedLocs_OwnCityOnly(board, move) ==
    LET tTo == board[move.uTo.loc]
        ownershipChanged == tTo.owner # move.uTo.owner
    IN <<move.uFrom.loc>> \o
       (IF ownershipChanged /\ isCityCenter(tTo)
        THEN LocSeq(cityTiles(board, tTo.cityId))
        ELSE <<move.uTo.loc>>)

\* lines 947-973: the locations to refresh, from the board before the update
UpdatedLocs(board, move) ==
    LET tTo == board[move.uTo.loc]
        ownershipChanged == tTo.owner # move.uTo.owner
    IN <<move.uFrom.loc>> \o
       (IF ownershipChanged /\ isCapital(tTo)
        THEN CityTilesSeq(board, SortedSeq(playerCities(board, tTo.owner)))
        ELSE IF ownershipChanged /\ isCityCenter(tTo)
        THEN LocSeq(cityTiles(board, tTo.cityId))
        ELSE <<move.uTo.loc>>)

\* only the updated location itself is looked at, not its neighbours
AlertIterations_TileOnly(updatedLocs) ==
    {[i |-> i, l |-> updatedLocs[i]] : i \in 1..Len(updatedLocs)}

\* lines 1005-1017: the iterations of the two nested loops: the i-th updated
\* location with its neighbour l; the neighbours are visited row by row
AlertIterations(updatedLocs) ==
    UNION {{[i |-> i, l |-> l] : l \in getNearbyLocations(updatedLocs[i])} :
              i \in 1..Len(updatedLocs)}
AlertNotAfter(p, q) ==
    p.i < q.i \/ (p.i = q.i /\ LocIndex(p.l) <= LocIndex(q.l))

\* lines 1009-1013: the iterations that find a tile of the address, each of
\* which makes sure the map has an entry for it
AlertEntered(board, updatedLocs, a) ==
    {q \in AlertIterations(updatedLocs) : board[q.l].owner = a}

\* lines 1003-1018: who has to decrypt what, over the updated board: the
\* tile owner gets the updated location; the new and the previous owner get
\* the neighbour once the map has an entry for them
AlertPlayerMap(board, updatedLocs, newOwner, prevOwner) ==
    LET its == AlertIterations(updatedLocs)
        newIn == AlertEntered(board, updatedLocs, newOwner)
        prevIn == AlertEntered(board, updatedLocs, prevOwner)
        adds == {<<board[p.l].owner, updatedLocs[p.i]>> : p \in its}
                \cup {<<newOwner, p.l>> :
                        p \in {q \in its :
                                  \E r \in newIn : AlertNotAfter(r, q)}}
                \cup {<<prevOwner, p.l>> :
                        p \in {q \in its :
                                  \E r \in prevIn : AlertNotAfter(r, q)}}
    IN [a \in {x[1] : x \in adds} |-> {x[2] : x \in {y \in adds : y[1] = a}}]

\* alertPlayers, lines 998-1026: the notifications sent
alertPlayers(board, newOwner, prevOwner, updatedLocs) ==
    LET m == AlertPlayerMap(board, updatedLocs, newOwner, prevOwner)
    IN Sent({Emit(addressToId[pubkey], "updateDisplay", m[pubkey]) :
                pubkey \in (DOMAIN m) \cap (DOMAIN addressToId)})

\* only the tile the army left is committed
FinalizedBoard_FromOnly(board, move) == setTile(board, move.uFrom)

\* lines 976-977: both tiles of the claim are committed
FinalizedBoard(board, move) == setTile(setTile(board, move.uFrom), move.uTo)

\* the envelope of the to tile is enqueued first
FinalizedQueue_ToFirst(q, move) ==
    enqueueTile(enqueueTile(q, move.uTo), move.uFrom)

\* lines 980-981: the envelopes of both tiles are enqueued, from then to
FinalizedQueue(q, move) ==
    enqueueTile(enqueueTile(q, move.uFrom), move.uTo)

\* the unmatched event retires the claims that share its from-hash (the key
\* matched by its prefix)
FinalizeUnclaimed_ByPrefix(moveHash) ==
    /\ out' = {}
    /\ claimedMoves' = [k \in {x \in DOMAIN claimedMoves : x[1] # moveHash[1]}
                           |-> claimedMoves[k]]
    /\ UNCHANGED <<b, queuedTilesDA, sentDA>>

\* lines 985-989: no claim matches; the event is logged and nothing changes
FinalizeUnclaimed(moveHash) ==
    /\ out' = {}
    /\ UNCHANGED <<b, claimedMoves, queuedTilesDA, sentDA>>

\* line 943: the event matches a pending claim
MoveClaimed(moveHash) == moveHash \in DOMAIN claimedMoves

\* onMoveFinalize, lines 937-990
OnMoveFinalize(hUFrom, hUTo) ==
    /\ ev' = Event("NewMove", 0, NoAddr, MoveKey(hUFrom, hUTo))
    /\ UNCHANGED <<live, nextConn, inRecoveryMode, cityId, idToAddress,
                   addressToId, claimedSpawns, currentBlockHeight,
                   playerLatestBlock, socketIdDA, tasks, movesAccepted,
                   spawnsOutstanding, expiredMoves,
                   spawnSigsIssued, moveSigsIssued, recoveryModeIndex>>
    /\ IF ~inRecoveryMode /\ MoveClaimed(MoveKey(hUFrom, hUTo))
       THEN LET move == claimedMoves[MoveKey(hUFrom, hUTo)]
                prevOwner == b[move.uTo.loc].owner
                newOwner == move.uTo.owner
                updatedLocs == UpdatedLocs(b, move)
                board == FinalizedBoard(b, move)
                queued == FinalizedQueue(queuedTilesDA, move)
            IN
            /\ Len(queuedTilesDA) + 2 <= MaxQueue
            /\ claimedMoves' = MapDelete(claimedMoves, MoveKey(hUFrom, hUTo))
            /\ b' = board
            /\ queuedTilesDA' = dequeueQueue(socketIdDA, queued)
            /\ sentDA' = dequeueSent(socketIdDA, queued, sentDA)
            /\ out' = dequeueEmits(socketIdDA, queued) \cup
                      alertPlayers(board, newOwner, prevOwner, updatedLocs)
       ELSE FinalizeUnclaimed(MoveKey(hUFrom, hUTo))

(* ------------------------------ block events --------------------------- *)
\* the sweep one block early
ClaimExpired_Early(c, height) == height >= c.blockSubmitted + CLAIMED_MOVE_LIFE_SPAN

\* line 1153: the claim has been pending for too long
ClaimExpired(c, height) == height > c.blockSubmitted + CLAIMED_MOVE_LIFE_SPAN

\* a sweep that retires nothing
upkeepClaimedMoves_KeepAll(claims, height) == claims

\* upkeepClaimedMoves, lines 1151-1157
upkeepClaimedMoves(claims, height) ==
    [h \in {k \in DOMAIN claims : ~ClaimExpired(claims[k], height)} |-> claims[h]]

\* the "block" callback, lines 1212-1215
Block ==
    /\ currentBlockHeight < MaxHeight
    /\ currentBlockHeight' = currentBlockHeight + 1
    /\ claimedMoves' = upkeepClaimedMoves(claimedMoves, currentBlockHeight + 1)
    /\ movesAccepted' = [a \in Addr |-> 0]
    /\ expiredMoves' = expiredMoves \cup
           {k \in DOMAIN claimedMoves :
               ClaimExpired(claimedMoves[k], currentBlockHeight + 1)}
    /\ out' = {}
    /\ ev' = Event("block", 0, NoAddr, currentBlockHeight + 1)
    /\ UNCHANGED <<live, nextConn, inRecoveryMode, b, cityId, idToAddress,
                   addressToId, claimedSpawns, playerLatestBlock, socketIdDA,
                   queuedTilesDA, tasks, spawnsOutstanding, spawnSigsIssued,
                   moveSigsIssued,
                   sentDA, recoveryModeIndex,
                   newTileLog, citiesToPlayer, playerToCities, playerToCapital,
          capitalToPlayer, indexOfCity>>

(* -------------------------------- DA node ------------------------------ *)
\* handshakeDA, lines 1032-1040
\* the slot is taken over whoever holds it
SlotFree_Always == TRUE

\* line 1033: no DA node is attached
SlotFree == socketIdDA = 0

HandshakeDA(s) ==
    /\ s \in live
    /\ ev' = Event("handshakeDA", s, Who(s), 0)
    /\ UNCHANGED <<nextConn, inRecoveryMode, b, cityId, claimedMoves,
                   claimedSpawns, currentBlockHeight, playerLatestBlock,
                   queuedTilesDA, tasks, movesAccepted, spawnsOutstanding, expiredMoves,
                   spawnSigsIssued, moveSigsIssued,
                   sentDA, recoveryModeIndex,
                   newTileLog, citiesToPlayer, playerToCities, playerToCapital,
          capitalToPlayer, indexOfCity>>
    /\ IF SlotFree
       THEN /\ socketIdDA' = s
            /\ out' = {Emit(s, "handshakeDAResponse", inRecoveryMode)}
            /\ UNCHANGED <<live, idToAddress, addressToId>>
       ELSE /\ Drop(s)
            /\ out' = {}

\* the DA node's message acknowledges the oldest envelope in flight to it
Acknowledged(s) ==
    [sentDA EXCEPT ![s] = IF @ > 0 THEN @ - 1 ELSE 0]

\* any connection is taken for the DA node once one is attached
NotAttachedDA_SlotOnly(s) == socketIdDA = 0

\* lines 1046, 1098, 1109: the sender is not the attached DA node
NotAttachedDA(s) == socketIdDA = 0 \/ s # socketIdDA

\* saveToDatabaseResponse, lines 1097-1103
SaveToDatabaseResponse(s) ==
    /\ s \in live
    /\ ev' = Event("saveToDatabaseResponse", s, Who(s), 0)
    /\ UNCHANGED <<nextConn, inRecoveryMode, b, cityId, claimedMoves,
                   claimedSpawns, currentBlockHeight, playerLatestBlock,
                   tasks, movesAccepted, spawnsOutstanding, expiredMoves,
                   spawnSigsIssued, moveSigsIssued, recoveryModeIndex,
                   newTileLog, citiesToPlayer, playerToCities, playerToCapital,
          capitalToPlayer, indexOfCity>>
    /\ IF NotAttachedDA(s)
       THEN /\ Drop(s)
            /\ out' = {}
            /\ UNCHANGED <<queuedTilesDA, sentDA>>
       ELSE /\ queuedTilesDA' = dequeueQueue(socketIdDA, queuedTilesDA)
            /\ sentDA' = dequeueSent(socketIdDA, queuedTilesDA, Acknowledged(s))
            /\ out' = dequeueEmits(socketIdDA, queuedTilesDA)
            /\ UNCHANGED <<live, idToAddress, addressToId, socketIdDA>>

(* -------------------------------- recovery ----------------------------- *)
\* Utils.decryptTile: no tile when the ciphertext was not made under the
\* backup key
NoTile == MkTile(<<0, 0>>, NoAddr, 0, 0, "undefined")
decryptTile(enc) ==
    IF enc.ciphertext # << >> /\ enc.ciphertext[1] = "aes"
    THEN enc.ciphertext[2] ELSE NoTile

\* Board.spawn(loc, owner, resources, cityId): the capital of a new city
spawn(board, l, owner, cid) == setTile(board, SpawnTile(owner, l, cid))

\* envelopes a DA node may return: backups of tiles the ledger committed (a
\* capital and a second tile of its owner), the backup of a tile the ledger
\* never committed, one that does not decrypt and one with a field missing
CommittedCapital == SpawnTile("a1", <<1, 0>>, 1)
CommittedTile == MkTile(<<0, 1>>, "a1", 1, 1, "bare")
ForgedTile == SpawnTile("a2", <<2, 2>>, 2)
Undecryptable == [address |-> "a1", ciphertext |-> <<"junk">>]
Incomplete == [address |-> "a1", ciphertext |-> << >>]
RecoveredEnvelopes ==
    {EncryptTile(CommittedCapital), EncryptTile(CommittedTile),
     EncryptTile(ForgedTile), Undecryptable, Incomplete}

\* nStates.queryFilter(nStates.filters.NewTile()): the hashes the ledger emitted
\* before the enclave started; newTileLog holds those it emitted since
TileHistory == {Hash(CommittedCapital), Hash(CommittedTile)}

\* line 1070 for a given log: the tile decrypted and its hash was emitted
hashHistoryHas(tile, log) == tile # NoTile /\ Hash(tile) \in log

\* the history is not consulted
InHistory_Unchecked(tile) == tile # NoTile

\* line 1070: the tile decrypted and its hash is in the ledger's history
InHistory(tile) == hashHistoryHas(tile, TileHistory \cup newTileLog)

\* the tile is written as it came, whether or not its owner has a city
RecoveredBoard_AlwaysSet(board, tile) == setTile(board, tile)

\* lines 1071-1082: the recovered tile enters the board
RecoveredBoard(board, tile) ==
    IF ~isSpawned(board, tile.owner)
    THEN spawn(board, tile.loc, tile.owner, tile.cityId)
    ELSE setTile(board, tile)

\* lines 1059-1082 for one envelope: the Board after the envelope was
\* decrypted, checked against the log and accepted or skipped
RecoverStep(board, enc, log) ==
    IF enc.ciphertext # << >> /\ hashHistoryHas(decryptTile(enc), log)
    THEN RecoveredBoard(board, decryptTile(enc))
    ELSE board

RECURSIVE Replay(_, _, _)
\* the handler run on a sequence of envelopes, one after the other
Replay(board, envelopes, log) ==
    IF envelopes = << >> THEN board
    ELSE Replay(RecoverStep(board, Head(envelopes), log), Tail(envelopes), log)

\* sendRecoveredTileResponse up to its await on the ledger, lines 1045-1064
SendRecoveredTileResponse(s, encTile) ==
    /\ s \in live
    /\ ev' = Event("sendRecoveredTileResponse", s, Who(s), encTile)
    /\ out' = {}
    /\ UNCHANGED <<nextConn, inRecoveryMode, b, cityId, claimedMoves,
                   claimedSpawns, currentBlockHeight, playerLatestBlock,
                   queuedTilesDA, movesAccepted, spawnsOutstanding,
                   expiredMoves, spawnSigsIssued, moveSigsIssued, sentDA,
                   recoveryModeIndex,
                   newTileLog, citiesToPlayer, playerToCities, playerToCapital,
          capitalToPlayer, indexOfCity>>
    /\ IF NotAttachedDA(s)
       THEN /\ Drop(s)
            /\ UNCHANGED tasks
       ELSE /\ UNCHANGED <<live, idToAddress, addressToId, socketIdDA>>
            /\ IF encTile.ciphertext = << >>
               THEN UNCHANGED tasks
               ELSE /\ FreeSlots # {}
                    /\ LET slot == CHOOSE x \in FreeSlots :
                                       \A y \in FreeSlots : x <= y
                       IN tasks' = MapSet(tasks, slot,
                              [kind |-> "recover", pc |-> "history", conn |-> s,
                               sender |-> Who(s), enc |-> encTile,
                               tile |-> decryptTile(encTile)])

\* lines 1062-1091: the ledger's history arrives; the tile is accepted or
\* skipped and the next one is requested
RecoveredTileChecked(slot) ==
    /\ slot \in DOMAIN tasks
    /\ tasks[slot].kind = "recover" /\ tasks[slot].pc = "history"
    /\ recoveryModeIndex < MaxRecoveryIndex
    /\ LET t == tasks[slot]
           fresh == ~isSpawned(b, t.tile.owner)
       IN
       /\ ev' = Event("sendRecoveredTileResponse:history", t.conn, t.sender, t.enc)
       /\ IF InHistory(t.tile)
          THEN /\ fresh => cityId < MaxCityId
               /\ b' = RecoveredBoard(b, t.tile)
               /\ cityId' = IF fresh THEN cityId + 1 ELSE cityId
          ELSE UNCHANGED <<b, cityId>>
       /\ recoveryModeIndex' = recoveryModeIndex + 1
       /\ out' = IF socketIdDA # 0
                 THEN Sent({Emit(socketIdDA, "sendRecoveredTile",
                                 recoveryModeIndex + 1)})
                 ELSE {}
       /\ tasks' = MapDelete(tasks, slot)
       /\ UNCHANGED <<live, nextConn, inRecoveryMode, idToAddress,
                      addressToId, claimedMoves, claimedSpawns,
                      currentBlockHeight, playerLatestBlock, socketIdDA,
                      queuedTilesDA, movesAccepted, spawnsOutstanding,
                      expiredMoves, spawnSigsIssued, moveSigsIssued, sentDA,
                   newTileLog, citiesToPlayer, playerToCities, playerToCapital,
          capitalToPlayer, indexOfCity>>

\* finishRecovery, lines 1108-1118
FinishRecovery(s) ==
    /\ s \in live
    /\ ev' = Event("recoveryFinished", s, Who(s), 0)
    /\ out' = {}
    /\ UNCHANGED <<nextConn, b, cityId, claimedMoves, claimedSpawns,
                   currentBlockHeight, playerLatestBlock, queuedTilesDA,
                   tasks, movesAccepted, spawnsOutstanding, expiredMoves,
                   spawnSigsIssued, moveSigsIssued, sentDA, recoveryModeIndex,
                   newTileLog, citiesToPlayer, playerToCities, playerToCapital,
          capitalToPlayer, indexOfCity>>
    /\ IF NotAttachedDA(s)
       THEN /\ Drop(s)
            /\ UNCHANGED inRecoveryMode
       ELSE /\ inRecoveryMode' = FALSE
            /\ UNCHANGED <<live, idToAddress, addressToId, socketIdDA>>

(* ----------------------------- specification --------------------------- *)
\* the steps of the suspended getSpawnSignature handlers
ResumeSpawn ==
    \/ \E slot \in 1..MaxTasks, height \in 0..1 : SpawnCommitmentRead(slot, height)
    \/ \E slot \in 1..MaxTasks : SpawnBlockHashRead(slot)
    \/ \E slot \in 1..MaxTasks : SpawnSigned(slot)

\* the steps of all suspended handlers
Resume ==
    \/ ResumeSpawn
    \/ \E slot \in 1..MaxTasks : MoveSigned(slot)

\* One player, a1, plays: it logs on (from any connection), asks to spawn,
\* proposes moves from (0,0) onto (0,1), naming either address as the owner
\* of either tile; the ledger resolves spawn attempts and finalizes moves;
\* blocks arrive.
Mover == "a1"

\* the player asks to spawn while no city id has been handed out and no
\* handler is suspended
RequestSpawnOnce(s) ==
    /\ cityId = 1
    /\ tasks = EmptyMap
    /\ GetSpawnSignature(s, Mover, CommittedSecret(Mover))

\* the ledger resolves a spawn attempt, or finalizes a move, only when the
\* transaction carries the enclave's signature
LedgerSpawnAttempt(player, success) ==
    /\ spawnSigsIssued[player] > 0
    /\ newTileLog' = IF success /\ player \in DOMAIN claimedSpawns
                     THEN newTileLog \cup {Hash(claimedSpawns[player].spawnTile)}
                     ELSE newTileLog
    /\ UNCHANGED <<citiesToPlayer, playerToCities, playerToCapital,
                   capitalToPlayer, indexOfCity>>
    /\ OnSpawnAttempt(player, success)

LedgerMove(uFrom, uTo) ==
    /\ MoveKey(Hash(uFrom), Hash(uTo)) \in moveSigsIssued
    /\ newTileLog' = newTileLog \cup {Hash(uFrom), Hash(uTo)}
    /\ UNCHANGED <<citiesToPlayer, playerToCities, playerToCapital,
                   capitalToPlayer, indexOfCity>>
    /\ OnMoveFinalize(Hash(uFrom), Hash(uTo))

Next ==
    \/ Connect
    \/ \E s \in Conn : Disconnect(s)
    \/ \E s \in Conn : Login(s, Mover, [signer |-> Mover, msg |-> s])
    \/ \E s \in Conn : RequestSpawnOnce(s)
    \/ Resume
    \/ \E s \in Conn, uFrom \in FromTiles, uTo \in ToTiles :
           GetMoveSignature(s, uFrom, uTo)
    \/ \E success \in BOOLEAN : LedgerSpawnAttempt(Mover, success)
    \/ \E uTo \in ToTiles : LedgerMove(MoveFrom(Mover), uTo)
    \/ Block

Spec == Init /\ [][Next]_vars

\* Both players log on, with good and bad signatures, from connections open
\* side by side; whoever is logged on may ask to spawn a1, with its secret or
\* an unparsable one, while no other handler is suspended.  No ledger events,
\* no moves, no blocks.
RequestSpawnAlone(s, playerSecret) ==
    /\ tasks = EmptyMap
    /\ GetSpawnSignature(s, Mover, playerSecret)

NextSession ==
    \/ Connect
    \/ \E s \in Conn : Disconnect(s)
    \/ \E s \in Conn, address \in Addr :
           \E sigStr \in LoginSigs(s, address) : Login(s, address, sigStr)
    \/ \E s \in Conn, secret \in {CommittedSecret(Mover), BadSecret} :
           RequestSpawnAlone(s, secret)
    \/ ResumeSpawn

SpecSession == Init /\ [][NextSession]_vars

\* The player alone, one connection at a time: it connects when nobody is
\* connected, logs on and asks to spawn as often as it likes, so that its
\* requests overlap; the ledger resolves its spawn attempts.  No moves, no
\* blocks.
Reconnect ==
    /\ live = {}
    /\ Connect

NextSpawn ==
    \/ Reconnect
    \/ \E s \in Conn : Disconnect(s)
    \/ \E s \in Conn : Login(s, Mover, [signer |-> Mover, msg |-> s])
    \/ \E s \in Conn, secret \in {CommittedSecret(Mover), BadSecret} :
           GetSpawnSignature(s, Mover, secret)
    \/ ResumeSpawn
    \/ \E success \in BOOLEAN : LedgerSpawnAttempt(Mover, success)

SpecSpawn == Init /\ [][NextSpawn]_vars

\* The enclave restarts in recovery mode.  A DA node attaches, returns
\* envelopes, acknowledges and reports the end of recovery, and so may any
\* other connection; meanwhile, and afterwards, a
\* player tries to log on and to look at two tiles, and, while recovery
\* lasts, to spawn and to move.
ViewedLocs == {<<1, 0>>, <<2, 2>>}

\* the DA node answers one request for a tile at a time
RecoveryReply(s, encTile) ==
    /\ tasks = EmptyMap
    /\ SendRecoveredTileResponse(s, encTile)

RecoverySpawnRequest(s) ==
    /\ inRecoveryMode
    /\ GetSpawnSignature(s, Mover, CommittedSecret(Mover))

RecoveryMoveRequest(s) ==
    /\ inRecoveryMode
    /\ GetMoveSignature(s, MoveFrom(Mover), MoveTo(Mover))

NextRecovery ==
    \/ Connect
    \/ \E s \in Conn : Disconnect(s)
    \/ \E s \in Conn : HandshakeDA(s)
    \/ \E s \in Conn, enc \in RecoveredEnvelopes : RecoveryReply(s, enc)
    \/ \E slot \in 1..MaxTasks : RecoveredTileChecked(slot)
    \/ \E s \in Conn : FinishRecovery(s)
    \/ \E s \in Conn : SaveToDatabaseResponse(s)
    \/ \E s \in Conn : Login(s, Mover, [signer |-> Mover, msg |-> s])
    \/ \E s \in Conn : RecoverySpawnRequest(s)
    \/ \E s \in Conn : RecoveryMoveRequest(s)
    \/ \E s \in Conn, l \in ViewedLocs : Decrypt(s, l)

SpecRecovery == InitRecovery /\ [][NextRecovery]_vars

\* Both players log on; a1 spawns; whoever is logged on looks at any tile
\* of the board.  No moves, no blocks.
NextView ==
    \/ Connect
    \/ \E s \in Conn : Disconnect(s)
    \/ \E s \in Conn, address \in Addr :
           Login(s, address, [signer |-> address, msg |-> s])
    \/ \E s \in Conn : RequestSpawnOnce(s)
    \/ ResumeSpawn
    \/ \E success \in BOOLEAN : LedgerSpawnAttempt(Mover, success)
    \/ \E s \in Conn, l \in Loc : Decrypt(s, l)

SpecView == Init /\ [][NextView]_vars

\* Two players stay connected: a1 spawns first (its capital is (1,0)), a2
\* second (its capital is (2,1), next to it), and a2 marches once from its
\* capital onto a1's.  The ledger reports the spawns and finalizes the move
\* the enclave signed; blocks arrive.  A connection may attach as the DA
\* node, and then the queue drains.
CaptureFrom == MkTile(<<2, 1>>, "a2", 0, 2, "capital")
CaptureTo == MkTile(<<1, 0>>, "a2", 1, 1, "capital")

FirstLogin(s, address) ==
    /\ s \notin DOMAIN idToAddress
    /\ address \notin DOMAIN addressToId
    /\ Login(s, address, [signer |-> address, msg |-> s])

RequestSpawnInTurn(s) ==
    /\ tasks = EmptyMap
    /\ cityId = CommittedSecret(Who(s))
    /\ GetSpawnSignature(s, Who(s), CommittedSecret(Who(s)))

RequestCaptureOnce(s) ==
    /\ tasks = EmptyMap
    /\ moveSigsIssued = {}
    /\ GetMoveSignature(s, CaptureFrom, CaptureTo)

NextCapture ==
    \/ Connect
    \/ \E s \in Conn, address \in Addr : FirstLogin(s, address)
    \/ \E s \in Conn : RequestSpawnInTurn(s)
    \/ Resume
    \/ \E s \in Conn : RequestCaptureOnce(s)
    \/ \E player \in Addr : LedgerSpawnAttempt(player, TRUE)
    \/ LedgerMove(CaptureFrom, CaptureTo)
    \/ Block
    \/ \E s \in Conn : HandshakeDA(s)

SpecCapture == Init /\ [][NextCapture]_vars

\* The player a1 logs on, spawns and moves once from (0,0) onto (0,1); a
\* connection that is not a player's attaches as the DA node.  The DA node
\* acknowledges only what it was sent; any other connection may send an
\* acknowledgement too.
DAReply(s) ==
    /\ s = socketIdDA => sentDA[s] > 0
    /\ SaveToDatabaseResponse(s)

AttachDA(s) ==
    /\ s \notin DOMAIN idToAddress
    /\ HandshakeDA(s)

PlayerLogin(s) ==
    /\ s # socketIdDA
    /\ Login(s, Mover, [signer |-> Mover, msg |-> s])

RequestMoveOnce(s) ==
    /\ tasks = EmptyMap
    /\ moveSigsIssued = {}
    /\ GetMoveSignature(s, MoveFrom(Mover), MoveTo(Mover))

NextDA ==
    \/ Connect
    \/ \E s \in Conn : Disconnect(s)
    \/ \E s \in Conn : AttachDA(s)
    \/ \E s \in Conn : DAReply(s)
    \/ \E s \in Conn : PlayerLogin(s)
    \/ \E s \in Conn : RequestSpawnOnce(s)
    \/ Resume
    \/ \E s \in Conn : RequestMoveOnce(s)
    \/ LedgerSpawnAttempt(Mover, TRUE)
    \/ LedgerMove(MoveFrom(Mover), MoveTo(Mover))
    \/ Block

SpecDA == Init /\ [][NextDA]_vars

\* The player a1 logs on once and asks to spawn whenever it has no claim
\* outstanding, at most two requests at a time, so that a request can be
\* answered after an earlier one has put its capital on the Board; its
\* commitment on the ledger was made at height 1 or 2; the ledger reports
\* its spawns as successful.
MaxOverlap == 2

RequestSpawnAgain ==
    \E s \in Conn :
        /\ s \in DOMAIN idToAddress
        /\ NoSpawnClaim(idToAddress[s], Mover)
        /\ Cardinality(DOMAIN tasks) < MaxOverlap
        /\ GetSpawnSignature(s, Mover, CommittedSecret(Mover))

NextLocate ==
    \/ Reconnect
    \/ \E s \in Conn : FirstLogin(s, Mover)
    \/ RequestSpawnAgain
    \/ \E slot \in 1..MaxTasks, height \in {1, 2} :
           SpawnCommitmentRead(slot, height)
    \/ \E slot \in 1..MaxTasks : SpawnBlockHashRead(slot)
    \/ \E slot \in 1..MaxTasks : SpawnSigned(slot)
    \/ LedgerSpawnAttempt(Mover, TRUE)

SpecLocate == Init /\ [][NextLocate]_vars

\* The enclave in mid-game.  Both players have spawned (a1's capital is
\* (1,0), a2's is (2,1)); a1 may have settled a second city, number 3, with
\* its center at (0,0) and a field at (0,1), and may hold the field (1,1) of
\* its first city; a2 may hold the field (2,2); the DA node has taken every
\* envelope and has gone; everybody has disconnected; the bookkeeping of the
\* signatures issued starts afresh.  From there players log on again, to
\* stay, and a2 marches once from its capital onto a1's capital, onto the
\* center or the field of a1's second city, or onto (2,2); the ledger
\* finalizes the move the enclave signed; blocks arrive.  A connection may
\* attach as the DA node before anybody logs on.
A1Capital == SpawnTile("a1", <<1, 0>>, 1)
A2Capital == SpawnTile("a2", <<2, 1>>, 2)
A1Center == MkTile(<<0, 0>>, "a1", 1, 3, "city")
A1Field == MkTile(<<0, 1>>, "a1", 1, 3, "bare")
A1Outskirt == MkTile(<<1, 1>>, "a1", 1, 1, "bare")
A2Outpost == MkTile(<<2, 2>>, "a2", 0, 2, "bare")

\* the seeded Board with the given tiles set
BoardWith(tiles) ==
    [l \in Loc |-> IF \E t \in tiles : t.loc = l
                   THEN CHOOSE t \in tiles : t.loc = l
                   ELSE BareTile(l)]

Capitals == {A1Capital, A2Capital}

MidGameBoards ==
    {BoardWith(Capitals \cup extra) :
        extra \in {{}, {A1Outskirt}, {A2Outpost}, {A1Center},
                   {A1Center, A1Field}, {A1Center, A1Field, A1Outskirt}}}

MarchTargets ==
    {CaptureTo,
     MkTile(<<0, 0>>, "a2", 1, 3, "city"),
     MkTile(<<0, 1>>, "a2", 1, 3, "bare"),
     MkTile(<<2, 2>>, "a2", 1, 2, "bare")}

InitMidGame ==
    /\ live = {}
    /\ nextConn = 1
    /\ inRecoveryMode = FALSE
    /\ b \in MidGameBoards
    /\ cityId = 3
    /\ idToAddress = EmptyMap
    /\ addressToId = EmptyMap
    /\ claimedMoves = EmptyMap
    /\ claimedSpawns = EmptyMap
    /\ currentBlockHeight = 1
    /\ playerLatestBlock = [a \in Addr |-> 0]
    /\ socketIdDA = 0
    /\ queuedTilesDA = << >>
    /\ tasks = EmptyMap
    /\ out = {}
    /\ ev = Event("disconnecting", 0, NoAddr, 0)
    /\ movesAccepted = [a \in Addr |-> 0]
    /\ spawnsOutstanding = [a \in Addr |-> 0]
    /\ expiredMoves = {}
    /\ spawnSigsIssued = [a \in Addr |-> 0]
    /\ moveSigsIssued = {}
    /\ recoveryModeIndex = 0
    /\ sentDA = [s \in Conn |-> 0]
    /\ newTileLog = {Hash(b[l]) : l \in {x \in Loc : b[x].owner # NoAddr}}
    /\ Deployed

\* the DA node attaches before anybody logs on
AttachFirst(s) ==
    /\ idToAddress = EmptyMap
    /\ socketIdDA = 0
    /\ HandshakeDA(s)

RequestMarch(s, uTo) ==
    /\ tasks = EmptyMap
    /\ claimedMoves = EmptyMap
    /\ moveSigsIssued = {}
    /\ GetMoveSignature(s, CaptureFrom, uTo)

NextMidGame ==
    \/ Connect
    \/ \E s \in Conn, address \in Addr : FirstLogin(s, address)
    \/ \E s \in Conn, uTo \in MarchTargets : RequestMarch(s, uTo)
    \/ \E slot \in 1..MaxTasks : MoveSigned(slot)
    \/ \E uTo \in MarchTargets : LedgerMove(CaptureFrom, uTo)
    \/ Block
    \/ \E s \in Conn : AttachFirst(s)

SpecMidGame == InitMidGame /\ [][NextMidGame]_vars

\* Every handler in one run.  A connection may attach as the DA node before
\* anybody logs on; while nobody is logged on it acknowledges envelopes and
\* may report the end of recovery, and once it returns a tile.  The player
\* a1 logs on once, spawns, proposes one move and looks at two tiles; the
\* ledger reports the spawn and finalizes the move; blocks arrive; a
\* connection closes while no handler is suspended and no move is pending.
ReturnedEnvelopes == {EncryptTile(CommittedTile), Undecryptable}

ReturnTile(s, enc) ==
    /\ s = socketIdDA
    /\ recoveryModeIndex = 0
    /\ claimedMoves = EmptyMap
    /\ RecoveryReply(s, enc)

QuietDisconnect(s) ==
    /\ tasks = EmptyMap
    /\ claimedMoves = EmptyMap
    /\ Disconnect(s)

EarlyDAReply(s) ==
    /\ idToAddress = EmptyMap
    /\ DAReply(s)

EarlyFinish(s) ==
    /\ idToAddress = EmptyMap
    /\ s = socketIdDA
    /\ FinishRecovery(s)

LookAt(s, l) ==
    /\ tasks = EmptyMap
    /\ claimedMoves = EmptyMap
    /\ socketIdDA = 0
    /\ Decrypt(s, l)

NextHandlers ==
    \/ Connect
    \/ \E s \in Conn : QuietDisconnect(s)
    \/ \E s \in Conn : AttachFirst(s)
    \/ \E s \in Conn : EarlyDAReply(s)
    \/ \E s \in Conn, enc \in ReturnedEnvelopes : ReturnTile(s, enc)
    \/ \E slot \in 1..MaxTasks : RecoveredTileChecked(slot)
    \/ \E s \in Conn : EarlyFinish(s)
    \/ \E s \in Conn : FirstLogin(s, Mover)
    \/ \E s \in Conn : RequestSpawnOnce(s)
    \/ Resume
    \/ \E s \in Conn : RequestMoveOnce(s)
    \/ \E s \in Conn, l \in ViewedLocs : LookAt(s, l)
    \/ LedgerSpawnAttempt(Mover, TRUE)
    \/ LedgerMove(MoveFrom(Mover), MoveTo(Mover))
    \/ tasks = EmptyMap /\ Block

SpecHandlers == Init /\ [][NextHandlers]_vars

\* Mid-game with the blocks still coming.  a2 connects once, logs on and proposes marches
\* from its capital, two proposals possibly overlapping while the signer is
\* busy; the ledger finalizes a signed move or never does; MaxOverlap
\* proposals are made at most, each while the heights that retire it are
\* still to come, and the next block always arrives.
TickTargets == {CaptureTo, MkTile(<<2, 2>>, "a2", 1, 2, "bare")}

MarchKeys == {MoveKey(Hash(CaptureFrom), Hash(uTo)) : uTo \in TickTargets}

RequestMarchInTime(s, uTo) ==
    /\ currentBlockHeight + CLAIMED_MOVE_LIFE_SPAN < MaxHeight
    /\ Len(queuedTilesDA) < 2 * MaxOverlap
    /\ Who(s) = "a2"
    /\ MoveAllowed("a2", CaptureFrom)
    /\ GetMoveSignature(s, CaptureFrom, uTo)

NextTicks ==
    \/ live = {} /\ Connect
    \/ \E s \in Conn : FirstLogin(s, "a2")
    \/ \E s \in Conn, uTo \in TickTargets : RequestMarchInTime(s, uTo)
    \/ \E slot \in 1..MaxTasks : MoveSigned(slot)
    \/ \E uTo \in TickTargets : LedgerMove(CaptureFrom, uTo)
    \/ Block

SpecTicks == InitMidGame /\ [][NextTicks]_vars /\ WF_vars(Block)

\* The backlog and a DA node that stays.  Nobody disconnects; a connection
\* that is not a player's attaches as the DA node and acknowledges every
\* envelope it was sent, sooner or later; a1 may log on and spawn, and the
\* ledger may report the spawn, but nothing obliges them to.
AttachedAck(s) ==
    /\ s = socketIdDA
    /\ sentDA[s] > 0
    /\ SaveToDatabaseResponse(s)

NextBacklog ==
    \/ Connect
    \/ \E s \in Conn : AttachDA(s)
    \/ \E s \in Conn : AttachedAck(s)
    \/ \E s \in Conn : PlayerLogin(s)
    \/ \E s \in Conn : RequestSpawnOnce(s)
    \/ ResumeSpawn
    \/ LedgerSpawnAttempt(Mover, TRUE)

SpecBacklog ==
    Init /\ [][NextBacklog]_vars /\ WF_vars(\E s \in Conn : AttachedAck(s))

\* A game, a restart and a recovery.  Players log on and ask to spawn for
\* themselves, one request at a time; the ledger reports each attempt as
\* failed or successful.  The enclave is then restarted in recovery mode:
\* the process starts afresh, the ledger keeps its log.  A DA node attaches,
\* returns the backups of the capitals the ledger committed and reports the
\* end of recovery; players log on and ask to spawn again.
Restart ==
    /\ ~inRecoveryMode
    /\ recoveryModeIndex = 0
    /\ tasks = EmptyMap
    /\ newTileLog # {}
    /\ live' = {}
    /\ nextConn' = 1
    /\ inRecoveryMode' = TRUE
    /\ b' = SeededBoard
    /\ cityId' = 1
    /\ idToAddress' = EmptyMap
    /\ addressToId' = EmptyMap
    /\ claimedMoves' = EmptyMap
    /\ claimedSpawns' = EmptyMap
    /\ currentBlockHeight' = 0
    /\ playerLatestBlock' = EmptyMap
    /\ socketIdDA' = 0
    /\ queuedTilesDA' = << >>
    /\ out' = {}
    /\ ev' = Event("listen", 0, NoAddr, 0)
    /\ movesAccepted' = [a \in Addr |-> 0]
    /\ spawnsOutstanding' = [a \in Addr |-> 0]
    /\ expiredMoves' = {}
    /\ spawnSigsIssued' = [a \in Addr |-> 0]
    /\ moveSigsIssued' = {}
    /\ sentDA' = [s \in Conn |-> 0]
    /\ UNCHANGED <<tasks, recoveryModeIndex, newTileLog, citiesToPlayer, playerToCities,
                   playerToCapital, capitalToPlayer, indexOfCity>>

RequestSpawnOwn(s) ==
    /\ tasks = EmptyMap
    /\ s \in DOMAIN idToAddress
    /\ NoSpawnClaim(idToAddress[s], idToAddress[s])
    /\ GetSpawnSignature(s, idToAddress[s], CommittedSecret(idToAddress[s]))

ReturnLogged(s, address, cid) ==
    LET tile == SpawnTile(address,
                          SpawnLocation(CommittedSecret(address), BlockHashAt(1)),
                          cid)
    IN /\ s = socketIdDA
       /\ inRecoveryMode
       /\ Hash(tile) \in newTileLog
       /\ ~isSpawned(b, address)
       /\ RecoveryReply(s, EncryptTile(tile))

NextRestart ==
    \/ Connect
    \/ \E s \in Conn, address \in Addr : FirstLogin(s, address)
    \/ \E s \in Conn : RequestSpawnOwn(s)
    \/ ResumeSpawn
    \/ \E address \in Addr, success \in BOOLEAN : LedgerSpawnAttempt(address, success)
    \/ Restart
    \/ \E s \in Conn : AttachFirst(s)
    \/ \E s \in Conn, address \in Addr, cid \in 1..MaxCityId :
           ReturnLogged(s, address, cid)
    \/ \E slot \in 1..MaxTasks : RecoveredTileChecked(slot)
    \/ \E s \in Conn : EarlyFinish(s)

SpecRestart == Init /\ [][NextRestart]_vars

\* The ledger contract on its own: the owner spawns players, each with a
\* city id not yet in game, and players move, capturing cities and capitals.
NextLedger ==
    \/ \E pkHash \in 1..MaxPkHash, city \in 1..MaxCities :
           NStatesSpawn(pkHash, city)
    \/ \E moveInputs \in [fromPkHash : 1..MaxPkHash, fromCityId : 1..MaxCities,
                           toCityId : 1..MaxCities, ontoSelfOrUnowned : {0, 1},
                           capturedTile : {0, 1}, takingCity : {0, 1},
                           takingCapital : {0, 1}] :
           NStatesMove(moveInputs)

SpecLedger == Init /\ [][NextLedger]_vars

(* ======================================================================= *)
(*                               properties                                *)
(* ======================================================================= *)

\* C1: for every address and every block height, at most one move proposal
\* of that address at that height is accepted.
C1_OneMovePerAddressPerHeight == \A a \in Addr : movesAccepted[a] <= 1

\* C2: every address has at most one spawn claim that was proposed and is
\* not yet resolved by a spawn-attempt-resolved event.
C2_OneSpawnClaimPerAddress == \A a \in Addr : spawnsOutstanding[a] <= 1

\* C3: no two open connections are bound to the same address.
C3_NoSharedAddress ==
    \A s1 \in live, s2 \in live :
        (s1 # s2 /\ s1 \in DOMAIN idToAddress /\ s2 \in DOMAIN idToAddress)
            => idToAddress[s1] # idToAddress[s2]

\* a login for an address that another open connection holds was turned away
C3_Witness ==
    /\ ev.op = "login" /\ ev.conn \notin live
    /\ \E s \in live : /\ s \in DOMAIN idToAddress
                       /\ idToAddress[s] = ev.arg
                       /\ ev.arg \in DOMAIN addressToId
                       /\ addressToId[ev.arg] = s

\* C4: a spawn-attempt-resolved(address, true) event processed in normal mode
\* while the address has a proposed spawn claim commits the claim's proposed
\* tile into the Board.
C4_SpawnSuccessCommits ==
    [][(/\ ev'.op = "NewSpawnAttempt" /\ ev'.arg = TRUE
        /\ ~inRecoveryMode
        /\ ev'.who \in DOMAIN claimedSpawns)
         => b'[claimedSpawns[ev'.who].spawnTile.loc]
                = claimedSpawns[ev'.who].spawnTile]_vars

C6_UnclaimedFinalizeIgnored ==
    [][ev'.op = "NewMove" =>
         /\ ev'.arg \notin DOMAIN claimedMoves'
         /\ ~MoveClaimed(ev'.arg) =>
              /\ out' = {}
              /\ UNCHANGED <<live, nextConn, inRecoveryMode, b, cityId,
                             idToAddress, addressToId, claimedMoves,
                             claimedSpawns, currentBlockHeight,
                             playerLatestBlock, socketIdDA, queuedTilesDA,
                             tasks>>]_vars

\* an unmatched move-finalized event was processed while another claim is pending
C6_Witness ==
    /\ ev.op = "NewMove"
    /\ Hash(b[<<0, 0>>]) # ev.arg[1]
    /\ out = {}
    /\ claimedMoves # EmptyMap

\* C7: a move claim proposed at height H that is not finalized survives the
\* sweep of every block up to H + CLAIMED_MOVE_LIFE_SPAN and is deleted by
\* the sweep of block H + CLAIMED_MOVE_LIFE_SPAN + 1.
C7_MoveExpiry ==
    /\ [](\A k \in DOMAIN claimedMoves :
             currentBlockHeight <= claimedMoves[k].blockSubmitted
                                     + CLAIMED_MOVE_LIFE_SPAN)
    /\ [][currentBlockHeight' # currentBlockHeight =>
            \A k \in DOMAIN claimedMoves :
                (k \in DOMAIN claimedMoves') <=>
                    (currentBlockHeight' <= claimedMoves[k].blockSubmitted
                                              + CLAIMED_MOVE_LIFE_SPAN)]_vars

\* the sweep of block H + CLAIMED_MOVE_LIFE_SPAN + 1 has deleted the claim
\* the player proposed at H
C7_Witness ==
    /\ ev.op = "block"
    /\ Mover \in DOMAIN playerLatestBlock
    /\ playerLatestBlock[Mover] >= 1
    /\ currentBlockHeight = playerLatestBlock[Mover] + CLAIMED_MOVE_LIFE_SPAN + 1
    /\ \E k \in expiredMoves : k \notin DOMAIN claimedMoves

\* a getMoveSignature for a key whose claim has expired, from the connection
\* bound to the owner of the from-tile
ExpiredRetry ==
    /\ ev'.op = "getMoveSignature"
    /\ ev'.arg \in expiredMoves
    /\ ev'.arg \notin DOMAIN claimedMoves
    /\ ev'.who # NoAddr
    /\ ev'.arg[1][3] = ev'.who

\* the request of this step was accepted: the connection stays, the claim is
\* recorded with the current height and a signature over it is on its way
MoveAccepted ==
    /\ ev'.conn \in live'
    /\ ev'.arg \in DOMAIN claimedMoves'
    /\ claimedMoves'[ev'.arg].blockSubmitted = currentBlockHeight
    /\ \E slot \in (DOMAIN tasks') \ (DOMAIN tasks) :
           /\ tasks'[slot].key = ev'.arg
           /\ tasks'[slot].conn = ev'.conn
           /\ tasks'[slot].sig =
                  EnclaveSig(currentBlockHeight, ev'.arg[1], ev'.arg[2])

\* C8 as stated: once a claim has expired, a new request for the same pair
\* from the same logged-in address is accepted.
C8_ExpiredRetryAccepted == [][ExpiredRetry => MoveAccepted]_vars

\* C8 amended: ... is accepted provided the address's last proposal height is
\* below the current height.
C8_ExpiredRetryAcceptedOncePerBlock ==
    [][(/\ ExpiredRetry
        /\ ev'.who \in DOMAIN playerLatestBlock
        /\ playerLatestBlock[ev'.who] < currentBlockHeight)
          => MoveAccepted]_vars

\* an expired pair was proposed again and the claim is back, at this height
C8_Witness ==
    /\ ev.op = "getMoveSignature" /\ ev.conn \in live
    /\ ev.arg \in expiredMoves
    /\ ev.arg \in DOMAIN claimedMoves
    /\ claimedMoves[ev.arg].blockSubmitted = currentBlockHeight

C10_SpawnClaimConflict ==
    [][(/\ ev'.op = "getSpawnSignature"
        /\ ev'.who # NoAddr
        /\ (ev'.arg \in DOMAIN claimedSpawns \/ ev'.who \in DOMAIN claimedSpawns))
          => /\ ev'.conn \notin live'
             /\ out' = {}
             /\ UNCHANGED <<tasks, claimedSpawns, cityId>>]_vars

\* a logged-on connection asked to spawn an address that has a claim and was
\* closed
C10_Witness ==
    /\ ev.op = "getSpawnSignature" /\ ev.who # NoAddr
    /\ ev.arg \in DOMAIN claimedSpawns
    /\ ev.conn \notin live

\* C11: a getMoveSignature whose from/to pair is the key of a pending move
\* claim is refused: no handler is left waiting for the signer (no signature
\* is issued) and the claim table, proposal heights included, stays as it is.
C11_PendingPairRejected ==
    [][(/\ ev'.op = "getMoveSignature"
        /\ MoveClaimed(ev'.arg))
          => /\ claimedMoves' = claimedMoves
             /\ tasks' = tasks]_vars

\* the login of this step must be refused according to C12: its signature
\* does not verify to the address over the connection id, or the address is
\* bound to a live connection
LoginMustFail ==
    \/ ev'.sig = Malformed
    \/ verifyMessage(ev'.conn, ev'.sig) # ev'.arg
    \/ /\ ev'.arg \in DOMAIN addressToId
       /\ addressToId[ev'.arg] \in live

\* a login that leaves its connection open has recorded both directions
LoginRecorded ==
    ev'.conn \in live' =>
        /\ ev'.conn \in DOMAIN idToAddress'
        /\ idToAddress'[ev'.conn] = ev'.arg
        /\ ev'.arg \in DOMAIN addressToId'
        /\ addressToId'[ev'.arg] = ev'.conn

\* C12 as stated: such a login closes the connection and leaves idToAddress
\* and addressToId unchanged; a successful login records the binding in both
\* directions.
C12_LoginOutcome ==
    [][ev'.op = "login" =>
         IF LoginMustFail
         THEN /\ ev'.conn \notin live'
              /\ idToAddress' = idToAddress
              /\ addressToId' = addressToId
         ELSE LoginRecorded]_vars

\* C12 amended: such a login closes the connection and records no binding;
\* the only change to idToAddress and addressToId is that the binding the
\* closed connection held itself, if any, is released.
C12_LoginOutcomeReleasesOwn ==
    [][ev'.op = "login" =>
         IF LoginMustFail
         THEN /\ ev'.conn \notin live'
              /\ idToAddress' = [x \in (DOMAIN idToAddress) \ {ev'.conn}
                                    |-> idToAddress[x]]
              /\ addressToId' =
                     [x \in (DOMAIN addressToId) \
                             (IF ev'.conn \in DOMAIN idToAddress
                              THEN {idToAddress[ev'.conn]} ELSE {})
                         |-> addressToId[x]]
         ELSE LoginRecorded]_vars

\* a login was refused on a connection that was logged on itself
C12_Witness ==
    /\ ev.op = "login"
    /\ ev.who # NoAddr
    /\ ev.conn \notin live
    /\ ev.conn \notin DOMAIN idToAddress

\* C13: in recovery mode login, getSpawnSignature, getMoveSignature and
\* decrypt close the requesting connection, send nothing and leave bindings,
\* claims, Board and DA queue unchanged.
C13_RecoveryRefusesSessions ==
    [][(/\ inRecoveryMode
        /\ ev'.op \in {"login", "getSpawnSignature", "getMoveSignature",
                       "decrypt"})
          => /\ ev'.conn \notin live'
             /\ out' = {}
             /\ UNCHANGED <<idToAddress, addressToId, claimedMoves,
                            claimedSpawns, b, queuedTilesDA, tasks>>]_vars

\* a login with a good signature was refused while the Board was being
\* recovered
C13_Witness ==
    /\ inRecoveryMode
    /\ ev.op = "login" /\ ev.conn \notin live
    /\ verifyMessage(ev.conn, ev.sig) = ev.arg
    /\ b # SeededBoard

\* the player owns the tile at l or a tile next to it
Visible(board, l, a) ==
    \/ board[l].owner = a
    \/ \E n \in Loc : /\ board[n].owner = a
                      /\ n # l
                      /\ n[1] - l[1] \in {-1, 0, 1}
                      /\ n[2] - l[2] \in {-1, 0, 1}

\* a tile that tells its location and nothing else
OnlyLocation(t, l) ==
    /\ t.loc = l
    /\ t.owner = NoAddr /\ t.resources = 0 /\ t.cityId = 0
    /\ t.tileType = "mystery"

\* C14: a logged-on connection that asks for a location is answered with
\* the Board's tile exactly when its address owns that tile or a tile next
\* to it, and otherwise with a sentinel that carries the location only.
C14_DecryptFollowsVisibility ==
    [][(ev'.op = "decrypt" /\ ev'.conn \in live')
          => \E t \in {b[ev'.arg], MysteryTile(ev'.arg)} :
                /\ out' = {Emit(ev'.conn, "decryptResponse", t)}
                /\ IF Visible(b, ev'.arg, ev'.who)
                   THEN t = b[ev'.arg]
                   ELSE t # b[ev'.arg] /\ OnlyLocation(t, ev'.arg)]_vars

\* a player without a tile looked at another player's capital and got the
\* sentinel
C14_Witness ==
    /\ ev.op = "decrypt" /\ ev.conn \in live
    /\ b[ev.arg].owner \notin {NoAddr, ev.who}
    /\ ~Visible(b, ev.arg, ev.who)
    /\ out = {Emit(ev.conn, "decryptResponse", MysteryTile(ev.arg))}

CapitalTaken(moveHash) ==
    /\ MoveClaimed(moveHash)
    /\ LET move == claimedMoves[moveHash] IN
       /\ b[move.uTo.loc].owner # move.uTo.owner
       /\ isCapital(b[move.uTo.loc])

\* every tile of every city of the player
Empire(board, a) == UNION {cityTiles(board, c) : c \in playerCities(board, a)}

\* C16: when a finalized move takes a capital, the old owner, the new owner
\* and every owner of a tile next to a tile of the old owner's cities, if
\* logged on, are each sent an updateDisplay that lists all tiles of all
\* cities the old owner had.
C16_CaptureRefreshesEmpire ==
    [][(ev'.op = "NewMove" /\ CapitalTaken(ev'.arg))
          => LET move == claimedMoves[ev'.arg]
                 prevOwner == b[move.uTo.loc].owner
                 marked == Empire(b, prevOwner)
                 near == {b'[n].owner :
                             n \in UNION {getNearbyLocations(l) : l \in marked}}
                 audience == ({prevOwner, move.uTo.owner} \cup near)
                                \cap DOMAIN addressToId
             IN \A p \in audience :
                   \E m \in out' : /\ m.to = addressToId[p]
                                    /\ m.msg = "updateDisplay"
                                    /\ marked \subseteq m.payload]_vars

\* C17 as stated: a handshakeDA that finds the slot occupied closes the
\* requesting connection and leaves the slot as it was.
C17_OccupiedSlotUnchanged ==
    [][(ev'.op = "handshakeDA" /\ socketIdDA # 0)
          => /\ ev'.conn \notin live'
             /\ socketIdDA' = socketIdDA]_vars

\* C17, amended: a handshakeDA that finds the slot occupied closes the
\* requesting connection; the slot keeps its holder, unless the requester
\* is the holder itself, and then the slot is empty afterwards.  A
\* handshakeDA that finds the slot empty gives it to the requester.
C17_OccupiedSlotKeepsOtherHolder ==
    [][ev'.op = "handshakeDA"
          => IF socketIdDA = 0
             THEN socketIdDA' = ev'.conn /\ ev'.conn \in live'
             ELSE /\ ev'.conn \notin live'
                  /\ socketIdDA' = IF ev'.conn = socketIdDA THEN 0
                                   ELSE socketIdDA]_vars

\* a second connection asked for the slot, was closed, and the first one
\* still holds it
C17_Witness ==
    /\ ev.op = "handshakeDA"
    /\ ev.conn \notin live
    /\ socketIdDA \in live
    /\ socketIdDA # ev.conn

\* C18: no connection has been sent more than one envelope that it has not
\* acknowledged.
C18_OneEnvelopeInFlight == \A s \in Conn : sentDA[s] <= 1

\* C19: every envelope that left the queue and was not acknowledged is in
\* flight to the connection that holds the DA slot now.
C19_NoEnvelopeLost == \A s \in Conn : sentDA[s] > 0 => s = socketIdDA

\* C20: while the Board is being recovered, the tile a DA node returned
\* changes the Board only when it decrypts and its hash is among those the
\* ledger emitted; a tile whose hash the ledger never emitted leaves the
\* Board as it was.
C20_OnlyCommittedTilesRecovered ==
    [][(inRecoveryMode /\ ev'.op = "sendRecoveredTileResponse:history")
          => LET tile == decryptTile(ev'.arg) IN
             /\ b' # b => (tile # NoTile /\ Hash(tile) \in TileHistory)
             /\ Hash(tile) \notin TileHistory => b' = b]_vars

\* after a committed tile had been recovered, a tile the ledger never
\* committed was returned and skipped
C20_Witness ==
    /\ inRecoveryMode
    /\ ev.op = "sendRecoveredTileResponse:history"
    /\ decryptTile(ev.arg) = ForgedTile
    /\ b # SeededBoard
    /\ b[ForgedTile.loc] = BareTile(ForgedTile.loc)
    /\ recoveryModeIndex > 1

\* C21: with no DA node attached the queue holds every envelope the enclave
\* enqueued, in order; replaying it on the seeded Board, each tile checked
\* against the ledger's log, gives the Board the enclave holds.
C21_ReplayRebuildsBoard ==
    socketIdDA = 0 => Replay(SeededBoard, queuedTilesDA, newTileLog) = b

\* the Board after a tile was recovered, from the Board before and the tile
\* alone: the tile itself, or a fresh capital when its owner had no tile
RecoveredFrom(board, tile) ==
    [board EXCEPT ![tile.loc] =
        IF \A l \in Loc : board[l].owner # tile.owner
        THEN [loc |-> tile.loc, owner |-> tile.owner,
              resources |-> START_RESOURCES, cityId |-> tile.cityId,
              tileType |-> "capital"]
        ELSE tile]

Located == {slot \in DOMAIN tasks :
               tasks[slot].kind = "spawn" /\ tasks[slot].pc = "sign"}

C24_SessionBijection ==
    /\ \A a \in DOMAIN addressToId :
          /\ addressToId[a] \in DOMAIN idToAddress
          /\ idToAddress[addressToId[a]] = a
    /\ \A s \in DOMAIN idToAddress :
          /\ idToAddress[s] \in DOMAIN addressToId
          /\ addressToId[idToAddress[s]] = s

\* C25: a disconnect removes both directions of the connection's binding:
\* afterwards the connection resolves to no address and no address resolves
\* to the connection, and releasing it once more changes nothing.
C25_DisconnectReleases ==
    [][\A s \in Conn :
         (ev'.op = "disconnecting" /\ ev'.conn = s)
           => /\ s \notin DOMAIN idToAddress'
              /\ \A a \in DOMAIN addressToId' : addressToId'[a] # s
              /\ DisconnectIdToAddress(s)' = idToAddress'
              /\ DisconnectAddressToId(s)' = addressToId']_vars

\* the locations of a sequence
Range(seq) == {seq[i] : i \in 1..Len(seq)}

\* the locations the claim names, from the Board before the move
AffectedByRule(board, move) ==
    LET tTo == board[move.uTo.loc]
        changed == tTo.owner # move.uTo.owner
    IN IF changed /\ tTo.tileType = "capital"
       THEN UNION {cityTiles(board, c) : c \in playerCities(board, tTo.owner)}
       ELSE IF changed /\ tTo.tileType = "city"
       THEN cityTiles(board, tTo.cityId)
       ELSE {move.uTo.loc}

\* C26 (as stated): on a finalized move with a matching claim the locations
\* marked as affected are every tile of every city of the dispossessed
\* player when a capital changes hands, the tiles of the destination's city
\* when another city center changes hands, and only the destination tile
\* otherwise, all taken from the Board before the move is committed.
C26_AffectedAsStated ==
    [][\A k \in DOMAIN claimedMoves :
         (ev'.op = "NewMove" /\ ev'.arg = k /\ ~inRecoveryMode)
           => Range(UpdatedLocs(b, claimedMoves[k]))
                = AffectedByRule(b, claimedMoves[k])]_vars

\* C26 (amended): the locations marked are those, and the location the
\* move leaves as well.
C26_AffectedWithOrigin ==
    [][\A k \in DOMAIN claimedMoves :
         (ev'.op = "NewMove" /\ ev'.arg = k /\ ~inRecoveryMode)
           => Range(UpdatedLocs(b, claimedMoves[k]))
                = {claimedMoves[k].uFrom.loc}
                    \cup AffectedByRule(b, claimedMoves[k])]_vars

\* a1's capital has just been taken while a1 holds a second city of two
\* tiles: the locations marked differ from those the Board after the move
\* would give
C26_Witness ==
    /\ ev.op = "NewMove"
    /\ b[CaptureTo.loc] = CaptureTo
    /\ b[A1Center.loc] = A1Center
    /\ b[A1Field.loc] = A1Field
    /\ CaptureFrom.loc \notin
          AffectedByRule(b, [uFrom |-> CaptureFrom, uTo |-> CaptureTo])

\* C27: processing a finalized move that matches a claim removes the claim,
\* sets the Board's tiles at the claim's from and to locations to the claimed
\* tiles and appends the envelopes of both, from then to, to the DA queue
\* (whose head goes to the DA node if one is attached), in that one step.
C27_FinalizeCommits ==
    [][\A k \in DOMAIN claimedMoves :
         (ev'.op = "NewMove" /\ ev'.arg = k /\ ~inRecoveryMode)
           => LET move == claimedMoves[k]
                  q == queuedTilesDA
                         \o <<EncryptTile(move.uFrom), EncryptTile(move.uTo)>>
              IN /\ k \notin DOMAIN claimedMoves'
                 /\ b'[move.uFrom.loc] = move.uFrom
                 /\ b'[move.uTo.loc] = move.uTo
                 /\ \A l \in Loc \ {move.uFrom.loc, move.uTo.loc} : b'[l] = b[l]
                 /\ queuedTilesDA' = IF socketIdDA = 0 THEN q ELSE Tail(q)]_vars

\* a move has just been committed while a DA node was attached: the claim
\* is gone, both tiles are on the Board and the envelope of the to tile is
\* the last of the queue
C27_Witness ==
    /\ ev.op = "NewMove"
    /\ socketIdDA # 0
    /\ claimedMoves = EmptyMap
    /\ b[CaptureFrom.loc] = CaptureFrom
    /\ b[CaptureTo.loc] = CaptureTo
    /\ Len(queuedTilesDA) >= 2
    /\ queuedTilesDA[Len(queuedTilesDA)] = EncryptTile(CaptureTo)

\* the player has a session: an open connection bound to it both ways
HasSession(a) ==
    /\ a \in DOMAIN addressToId
    /\ addressToId[a] \in live
    /\ addressToId[a] \in DOMAIN idToAddress
    /\ idToAddress[addressToId[a]] = a

\* C28: after a finalized move, for every affected location L and every
\* player with a bound session who owns, on the updated Board, a tile in the
\* neighbourhood of L, the player's updateDisplay notification contains L.
C28_EveryViewerNotified ==
    [][\A k \in DOMAIN claimedMoves :
         (ev'.op = "NewMove" /\ ev'.arg = k /\ ~inRecoveryMode)
           => \A L \in Range(UpdatedLocs(b, claimedMoves[k])), P \in Addr :
                (HasSession(P) /\ noFog(b', L, P))
                  => \E m \in out' : /\ m.to = addressToId[P]
                                      /\ m.msg = "updateDisplay"
                                      /\ L \in m.payload]_vars

\* a2 has just marched away from (2,1), next to a1's capital: a1, who owns
\* neither tile of the move, is told to look at (2,1) again
C28_Witness ==
    /\ ev.op = "NewMove"
    /\ HasSession("a1")
    /\ b[A1Capital.loc] = A1Capital
    /\ b[CaptureFrom.loc] = CaptureFrom
    /\ \E m \in out : /\ m.to = addressToId["a1"]
                       /\ m.msg = "updateDisplay"
                       /\ CaptureFrom.loc \in m.payload

\* the requests for a recovered tile among the messages of a step
TileRequests(msgs) == {m \in msgs : m.msg = "sendRecoveredTile"}

\* C29: each sendRecoveredTileResponse the attached DA node sends, whether
\* its tile is accepted or rejected, is followed by exactly one
\* sendRecoveredTile request, whose index is one greater than the previous
\* one: the handler either goes on to look the tile up or has asked for the
\* next tile, and when it has looked the tile up it asks for the next one.
C29_EachResponseAnswered ==
    [][/\ (/\ ev'.op = "sendRecoveredTileResponse"
            /\ socketIdDA # 0
            /\ ev'.conn = socketIdDA)
          => \/ DOMAIN tasks' # DOMAIN tasks
             \/ TileRequests(out') # {}
       /\ (/\ ev'.op = "sendRecoveredTileResponse:history"
            /\ ev'.conn = socketIdDA
            /\ ev'.conn \in live)
          => /\ recoveryModeIndex' = recoveryModeIndex + 1
             /\ TileRequests(out')
                  = {Emit(socketIdDA, "sendRecoveredTile",
                          recoveryModeIndex + 1)}]_vars

\* the DA messages that only the attached DA node may send
DAOnlyOps ==
    {"recoveryFinished", "sendRecoveredTileResponse", "saveToDatabaseResponse"}

\* recovery mode ends only on recoveryFinished from the attached DA node and
\* never begins again
RecoveryEndsOnce ==
    /\ (inRecoveryMode /\ ~inRecoveryMode')
          => /\ ev'.op = "recoveryFinished"
             /\ socketIdDA # 0
             /\ ev'.conn = socketIdDA
    /\ ~inRecoveryMode => ~inRecoveryMode'

\* what a refused DA message leaves alone besides the session directory
RefusedKeeps ==
    UNCHANGED <<inRecoveryMode, b, cityId, claimedMoves, claimedSpawns,
                currentBlockHeight, playerLatestBlock, socketIdDA,
                queuedTilesDA, tasks, recoveryModeIndex>>

\* C30 (as stated): the enclave leaves recovery mode only when
\* recoveryFinished arrives from the attached DA node and never re-enters
\* it; recoveryFinished, sendRecoveredTileResponse and
\* saveToDatabaseResponse from any other connection terminate that
\* connection and change no state.
C30_RefusedChangesNothing ==
    [][/\ RecoveryEndsOnce
       /\ (ev'.op \in DAOnlyOps /\ ev'.conn # socketIdDA)
             => /\ ev'.conn \notin live'
                /\ RefusedKeeps
                /\ UNCHANGED <<idToAddress, addressToId>>]_vars

\* C30 (amended): ... and change no state other than releasing the session
\* binding of the terminated connection, if it was logged on.
C30_RefusedReleasesOwnBinding ==
    [][/\ RecoveryEndsOnce
       /\ \A s \in Conn :
            (ev'.op \in DAOnlyOps /\ ev'.conn = s /\ s # socketIdDA)
              => /\ s \notin live'
                 /\ RefusedKeeps
                 /\ idToAddress' = DisconnectIdToAddress(s)
                 /\ addressToId' = DisconnectAddressToId(s)]_vars

\* recovery is over and a DA node is attached; the player, logged on from
\* another connection, has just reported the end of recovery itself: its
\* connection is closed and its binding released
C30_Witness ==
    /\ ev.op = "recoveryFinished"
    /\ ev.who = Mover
    /\ ev.conn \notin live
    /\ ~inRecoveryMode
    /\ socketIdDA \in live
    /\ Mover \notin DOMAIN addressToId

\* the handlers that write the Board: the two ledger-event handlers and the
\* recovery handler (after its ledger query)
BoardWriters == {"NewSpawnAttempt", "NewMove", "sendRecoveredTileResponse:history"}

\* C31: only onSpawnAttempt, onMoveFinalize and sendRecoveredTileResponse
\* change the Board; every other handler and the per-block sweep leave every
\* tile as it was.
C31_SingleWriter ==
    [][b' # b => ev'.op \in BoardWriters]_vars

\* a move proposal has just been accepted: the claim is recorded and the
\* tile it proposes is not on the Board
C31_Witness ==
    /\ ev.op = "getMoveSignature"
    /\ MoveKey(Hash(MoveFrom(Mover)), Hash(MoveTo(Mover))) \in DOMAIN claimedMoves
    /\ isSpawned(b, Mover)
    /\ b[MoveTo(Mover).loc] = BareTile(MoveTo(Mover).loc)

C33_BacklogDrains ==
    <>[](socketIdDA # 0) => []<>(queuedTilesDA = << >>)

\* C34: two overlapping getSpawnSignature requests for the same address never
\* both receive a spawn signature: between two spawn signatures delivered for
\* one address there is a spawn-attempt-resolved event for that address.
C34_OneSignaturePerAttempt ==
    \A a \in Addr : spawnSigsIssued[a] <= 1

\* C35: once a connection has been disconnected no binding for it exists or
\* reappears in idToAddress or addressToId, even if one of its handlers
\* resumes after the disconnect; so the address can log on again.
C35_NoBindingAfterDisconnect ==
    /\ DOMAIN idToAddress \subseteq live
    /\ \A a \in DOMAIN addressToId : addressToId[a] \in live

\* C36: every spawn claim is keyed by, and its proposed tile owned by, the
\* address bound to the session that requested it: a logged-in session never
\* creates a spawn claim for another address.
C36_ClaimForOwnAddress ==
    [][ev'.op = "getSpawnSignature:blockhash"
         => /\ ev'.arg = ev'.who
            /\ ev'.who \in DOMAIN claimedSpawns'
            /\ claimedSpawns'[ev'.who].spawnTile.owner = ev'.who]_vars

\* C37: for every accepted move proposal the block height returned in
\* moveSignatureResponse, and recorded as the address's last proposal height,
\* is the height the claim was stamped with and the signature covers, even
\* when a block arrives while the signer is busy.
C37_HeightsAgree ==
    [][ev'.op = "getMoveSignature:signed"
         => \A m \in out' :
                m.msg = "moveSignatureResponse"
                  => /\ m.payload.height = m.payload.sig[2]
                     /\ playerLatestBlock'[ev'.who] = m.payload.sig[2]]_vars

\* C38: sendRecoveredTileResponse changes the Board only while the enclave is
\* in recovery mode: in normal mode a tile returned by the attached DA node
\* never overwrites a Board tile, also when recovery ended while the handler
\* was waiting for its ledger query.
C38_RecoveryWritesOnlyInRecovery ==
    [][(ev'.op = "sendRecoveredTileResponse:history" /\ b' # b)
         => inRecoveryMode]_vars

\* C39: a newly proposed spawn tile never carries a city id that a city on
\* the Board or another spawn proposal already uses, whatever proposals and
\* resolutions came before, also after a recovery that restored players.
C39_FreshCityId ==
    [][ev'.op = "getSpawnSignature:blockhash"
         => LET new == claimedSpawns'[ev'.arg].spawnTile.cityId
            IN /\ \A l \in Loc : b'[l].owner # NoAddr => b'[l].cityId # new
               /\ \A a \in DOMAIN claimedSpawns' \ {ev'.arg} :
                      claimedSpawns'[a].spawnTile.cityId # new]_vars

\* every city with an owner sits once in its owner's list, at its index
CitiesIndexed ==
    \A c \in 1..MaxCities :
        citiesToPlayer[c] # 0 =>
            LET list == playerToCities[citiesToPlayer[c]]
            IN /\ indexOfCity[c] < Len(list)
               /\ list[indexOfCity[c] + 1] = c
               /\ Cardinality({i \in 1..Len(list) : list[i] = c}) = 1

\* C40: when move() captures a capital (capturedTile = 1, ontoSelfOrUnowned
\* = 0, takingCapital = 1) the city-transfer loop terminates; afterwards the
\* dispossessed player owns no city, every city it owned belongs to the
\* capturing player, and every owned city is listed exactly once in its
\* owner's list, at the index indexOfCity gives.
C40_CapitalCapture ==
    [][(ev'.op = "move" /\ ev'.arg.takingCapital = 1 /\ ev'.arg.enemy # 0)
         => /\ ~ev'.arg.outOfGas
            /\ playerToCities'[ev'.arg.enemy] = << >>
            /\ \A c \in 1..MaxCities :
                   /\ citiesToPlayer'[c] # ev'.arg.enemy
                   /\ citiesToPlayer[c] = ev'.arg.enemy
                        => citiesToPlayer'[c] = ev'.arg.fromPkHash
            /\ CitiesIndexed']_vars

====
